---- MODULE Spec2Model ----
(***************************************************************************)
(* Model of the Archon memory / event / AAL core.                          *)
(*                                                                         *)
(*   SessionSpec : SessionMemory (memory/session_memory.py) used by        *)
(*                 overlapping asyncio tasks; one step per await.          *)
(*   BreakerSpec : CircuitBreaker / CircuitBreakerRegistry                 *)
(*                 (aal/circuit_breaker.py) driven through its methods.    *)
(*   RouterSpec  : AgentService.execute_request (aal/service.py) with      *)
(*                 overlapping requests over the breaker registry.         *)
(*   DlqSpec     : DeadLetterQueue (events/dead_letter_queue.py) and the   *)
(*                 EventRetryWorker (events/retry_worker.py).              *)
(*   SupervisorSpec : WorkerSupervisor (workers/supervisor.py) over        *)
(*                 BaseWorker loops (workers/base.py); one step per        *)
(*                 stretch of a task between two suspensions.              *)
(*   AssemblerSpec : ContextAssembler.assemble_context and _build_context  *)
(*                 (memory/context_assembler.py) on bounded inputs.        *)
(*   ResilientSpec : ResilientContextAssembler.assemble_context            *)
(*                 (memory/resilient_memory.py) with its fallback cache.   *)
(*   BusSpec     : EventBus (events/bus.py): subscribe, publish with its   *)
(*                 dead-letter record, and the dispatch of a notification  *)
(*                 to the subscribed handlers.                             *)
(*   MemorySpec  : SessionMemory over a Redis with expiry, and the create  *)
(*                 of WorkingMemory and LongTermMemory, one caller, one    *)
(*                 step per await, while the wall clock advances.          *)
(*   AccessSpec  : LongTermMemory.update_access by several clients of the  *)
(*                 same table.                                             *)
(*   RegistrySpec : CircuitBreakerRegistry (aal/circuit_breaker.py) as the  *)
(*                 object its constructor hands out, used through several  *)
(*                 handles.                                                *)
(*   FetchSpec   : one layer fetch of ResilientContextAssembler             *)
(*                 (memory/resilient_memory.py) under its tenacity retry   *)
(*                 and its pybreaker breaker.                              *)
(*   RoutingSpec : AgentService.execute_request (aal/service.py), one      *)
(*                 request over four providers with model cost tables,     *)
(*                 circuit breaker disabled: selection, cost filter,       *)
(*                 ordering and failover.                                  *)
(***************************************************************************)
EXTENDS Integers, Sequences, FiniteSets, TLC

VARIABLES
    \* ---- session memory ----
    redis,          \* key -> stored Session (absent keys are not in the domain)
    tasks,          \* per asyncio task: position inside a SessionMemory call
    serialized,     \* history: per key, the messages in the order their SET was applied
    deleted,        \* history: per key, a delete_session completed since the last create
    \* ---- circuit breakers / router ----
    circuit_breakers, \* CircuitBreakerRegistry._circuit_breakers
    now,            \* time.time(), in seconds
    last_call,      \* history: the last breaker method called and what it returned
    requests,       \* per in-flight execute_request: its loop position
    enable_circuit_breaker, \* AgentService._enable_circuit_breaker
    \* ---- dead letter queue ----
    event_failures, \* table event_failures: id -> row
    clock,          \* datetime.now(), in minutes
    worker,         \* EventRetryWorker.run position and its fetched list
    \* ---- worker supervisor ----
    supervisor,     \* WorkerSupervisor: _running, and whether stop() has returned
    supervised,     \* per worker: BaseWorker._running, its supervision task, its health
    \* ---- context assembly ----
    assembled,      \* history: the last assembly call, its arguments and its result
    context_cache,  \* ResilientContextAssembler._context_cache: key -> context
    \* ---- event bus ----
    bus,            \* EventBus.pool is set; the listener is added
    subscribers,    \* EventBus.subscribers: event type -> list of handlers
    publishers,     \* per publish call: its position, its event, its outcome
    dispatches,     \* per event: the _handle_notification task that handles it
    dlq_records,    \* history: the rows EventBus had the DLQ insert, in order
    \* ---- memory layers with time ----
    redis_store,    \* Redis with expiry: key -> the session stored and when it expires
    wall,           \* the wall clock, in units of which ttl_seconds is a multiple
    memory_call,    \* the caller of the memory layers: the call in progress or just ended
    working_memory, \* table working_memory: the ids of its rows
    long_term_memory, \* table long_term_memory: id -> access_count
    access_clients, \* per client of the database: its update_access call in progress
    \* ---- routing of one request ----
    routing,        \* one execute_request: its request, candidates, calls and result
    \* ---- the breaker registry as a Python object ----
    registry,       \* CircuitBreakerRegistry: _instance, the objects made, the handles held
    \* ---- one layer fetch of the resilient assembler ----
    fetch           \* postgres_breaker and the last assemble_context over the working layer

sessionVars == <<redis, tasks, serialized, deleted>>
breakerVars == <<circuit_breakers, now, last_call>>
routerVars  == <<requests, enable_circuit_breaker>>
dlqVars     == <<event_failures, clock, worker>>
supervisorVars == <<supervisor, supervised>>
coreVars    == <<sessionVars, breakerVars, routerVars, dlqVars>>
assemblerVars == <<assembled, context_cache>>
busVars     == <<bus, subscribers, publishers, dispatches, dlq_records>>
memoryVars  == <<redis_store, wall, memory_call, working_memory, long_term_memory,
                 access_clients>>
lateVars    == <<fetch>>
moreVars    == <<memoryVars, routing, registry, lateVars>>
extVars     == <<supervisorVars, assemblerVars, busVars, moreVars>>
vars        == <<coreVars, extVars>>

\* Optional[T]: None is the empty sequence, a value v is <<v>>.
None == <<>>
Some(v) == <<v>>

(***************************************************************************)
(* SESSION MEMORY                                                          *)
(***************************************************************************)
NTasks == 2
MaxCalls == 2

Tasks == 1..NTasks
SessionIds == {"s1"}
Messages == [by : Tasks, n : 1..(MaxCalls + 1)]

IdleTask == [pc |-> "idle", sid |-> "s1", session |-> None, msg |-> None,
             result |-> None, calls |-> 0]

\* Session(session_id=..., user_id=..., messages=[], context=SessionContext())
NewSession(sid) == [session_id |-> sid, messages |-> <<>>]

SessionInit ==
    /\ redis = <<>>
    /\ tasks = [t \in Tasks |-> IdleTask]
    /\ serialized = [s \in SessionIds |-> <<>>]
    /\ deleted = [s \in SessionIds |-> FALSE]

\* redis.get(key): the stored value or None
RedisGet(sid) == IF sid \in DOMAIN redis THEN Some(redis[sid]) ELSE None

\* redis.set(key, value, ex=ttl) / redis.setex(key, ttl, value)
RedisSet(sid, session) ==
    [k \in (DOMAIN redis) \cup {sid} |-> IF k = sid THEN session ELSE redis[k]]

\* create_session, up to the first await that suspends: get_session's redis.get.
\* An existing session is returned as it is (after get_session's expire).
CreateSessionGet(t, sid) ==
    /\ tasks[t].pc = "idle"
    /\ tasks[t].calls < MaxCalls
    /\ LET data == RedisGet(sid) IN
       tasks' = [tasks EXCEPT ![t] =
                   IF data # None
                   THEN [@ EXCEPT !.pc = "cs_expire", !.sid = sid, !.session = data,
                                  !.msg = None, !.result = None, !.calls = @ + 1]
                   ELSE [@ EXCEPT !.pc = "cs_setex", !.sid = sid, !.session = None,
                                  !.msg = None, !.result = None, !.calls = @ + 1]]
    /\ UNCHANGED <<redis, serialized, deleted>>
    /\ UNCHANGED <<breakerVars, routerVars, dlqVars, extVars>>

\* get_session inside create_session: redis.expire, then the existing session is returned
CreateSessionExpire(t) ==
    /\ tasks[t].pc = "cs_expire"
    /\ tasks' = [tasks EXCEPT ![t] = [@ EXCEPT !.pc = "idle", !.result = tasks[t].session]]
    /\ UNCHANGED <<redis, serialized, deleted>>
    /\ UNCHANGED <<breakerVars, routerVars, dlqVars, extVars>>

\* create_session: redis.setex of a fresh session
CreateSessionSetex(t) ==
    /\ tasks[t].pc = "cs_setex"
    /\ redis' = RedisSet(tasks[t].sid, NewSession(tasks[t].sid))
    /\ serialized' = [serialized EXCEPT ![tasks[t].sid] = <<>>]
    /\ deleted' = [deleted EXCEPT ![tasks[t].sid] = FALSE]
    /\ tasks' = [tasks EXCEPT ![t] = [@ EXCEPT !.pc = "cs_publish",
                                               !.session = Some(NewSession(tasks[t].sid))]]
    /\ UNCHANGED <<breakerVars, routerVars, dlqVars, extVars>>

\* create_session: event_bus.publish(MEMORY_SESSION_CREATED); a failure is logged and dropped
CreateSessionPublish(t, ok) ==
    /\ tasks[t].pc = "cs_publish"
    /\ tasks' = [tasks EXCEPT ![t] = [@ EXCEPT !.pc = "idle", !.result = tasks[t].session]]
    /\ UNCHANGED <<redis, serialized, deleted>>
    /\ UNCHANGED <<breakerVars, routerVars, dlqVars, extVars>>

\* add_message, up to get_session's redis.get; an unknown session returns None
AddMessageGet(t, sid, m) ==
    /\ tasks[t].pc = "idle"
    /\ tasks[t].calls < MaxCalls
    /\ m = [by |-> t, n |-> tasks[t].calls + 1]
    /\ LET data == RedisGet(sid) IN
       tasks' = [tasks EXCEPT ![t] =
                   IF data = None
                   THEN [@ EXCEPT !.pc = "idle", !.sid = sid, !.session = None,
                                  !.msg = Some(m), !.result = None, !.calls = @ + 1]
                   ELSE [@ EXCEPT !.pc = "am_expire", !.sid = sid, !.session = data,
                                  !.msg = Some(m), !.result = None, !.calls = @ + 1]]
    /\ UNCHANGED <<redis, serialized, deleted>>
    /\ UNCHANGED <<breakerVars, routerVars, dlqVars, extVars>>

\* get_session inside add_message: redis.expire; then, without suspending,
\* session.messages.append(message) on the task's own copy
AddMessageExpire(t) ==
    /\ tasks[t].pc = "am_expire"
    /\ LET s == tasks[t].session[1] IN
       tasks' = [tasks EXCEPT ![t] =
                   [@ EXCEPT !.pc = "am_save",
                             !.session = Some([s EXCEPT !.messages =
                                                  Append(@, tasks[t].msg[1])])]]
    /\ UNCHANGED <<redis, serialized, deleted>>
    /\ UNCHANGED <<breakerVars, routerVars, dlqVars, extVars>>

\* _save_session: redis.set(key, session.model_dump_json(), ex=ttl)
SaveSession(session) == RedisSet(session.session_id, session)

\* add_message: await _save_session(session); the publish that follows raises
\* AttributeError on EventType.MEMORY_MESSAGE_ADDED (events/types.py has no such
\* member) inside the try, so nothing is published and the session is returned.
AddMessageSave(t) ==
    /\ tasks[t].pc = "am_save"
    /\ redis' = SaveSession(tasks[t].session[1])
    /\ serialized' = [serialized EXCEPT ![tasks[t].sid] = Append(@, tasks[t].msg[1])]
    /\ tasks' = [tasks EXCEPT ![t] = [@ EXCEPT !.pc = "idle", !.result = tasks[t].session]]
    /\ UNCHANGED deleted
    /\ UNCHANGED <<breakerVars, routerVars, dlqVars, extVars>>

\* redis.delete(key)
RedisDelete(sid) == [k \in (DOMAIN redis) \ {sid} |-> redis[k]]

\* delete_session, up to get_session's redis.get
DeleteSessionGet(t, sid) ==
    /\ tasks[t].pc = "idle"
    /\ tasks[t].calls < MaxCalls
    /\ LET data == RedisGet(sid) IN
       tasks' = [tasks EXCEPT ![t] =
                   [@ EXCEPT !.pc = IF data = None THEN "ds_delete" ELSE "ds_expire",
                             !.sid = sid, !.session = data,
                             !.msg = None, !.result = None, !.calls = @ + 1]]
    /\ UNCHANGED <<redis, serialized, deleted>>
    /\ UNCHANGED <<breakerVars, routerVars, dlqVars, extVars>>

\* get_session inside delete_session: redis.expire
DeleteSessionExpire(t) ==
    /\ tasks[t].pc = "ds_expire"
    /\ tasks' = [tasks EXCEPT ![t] = [@ EXCEPT !.pc = "ds_delete"]]
    /\ UNCHANGED <<redis, serialized, deleted>>
    /\ UNCHANGED <<breakerVars, routerVars, dlqVars, extVars>>

\* delete_session: redis.delete(key); the publish that follows raises
\* AttributeError on EventType.MEMORY_SESSION_DELETED inside the try, so the
\* call returns without suspending again
DeleteSessionDelete(t) ==
    /\ tasks[t].pc = "ds_delete"
    /\ redis' = RedisDelete(tasks[t].sid)
    /\ deleted' = [deleted EXCEPT ![tasks[t].sid] = TRUE]
    /\ tasks' = [tasks EXCEPT ![t] = [@ EXCEPT !.pc = "idle", !.result = None]]
    /\ UNCHANGED serialized
    /\ UNCHANGED <<breakerVars, routerVars, dlqVars, extVars>>

SessionNext ==
    \/ \E t \in Tasks, sid \in SessionIds : CreateSessionGet(t, sid)
    \/ \E t \in Tasks : CreateSessionExpire(t)
    \/ \E t \in Tasks : CreateSessionSetex(t)
    \/ \E t \in Tasks, ok \in BOOLEAN : CreateSessionPublish(t, ok)
    \/ \E t \in Tasks, sid \in SessionIds, m \in Messages : AddMessageGet(t, sid, m)
    \/ \E t \in Tasks : AddMessageExpire(t)
    \/ \E t \in Tasks : AddMessageSave(t)
    \/ \E t \in Tasks, sid \in SessionIds : DeleteSessionGet(t, sid)
    \/ \E t \in Tasks : DeleteSessionExpire(t)
    \/ \E t \in Tasks : DeleteSessionDelete(t)

(***************************************************************************)
(* CIRCUIT BREAKER                                                         *)
(***************************************************************************)
failure_threshold == 2
success_threshold == 2
timeout_seconds == 2
MaxBreakerTime == 4
MaxRouterTime == 2
MaxFailureCount == 4

ProviderNames == {"p1", "p2"}

\* CircuitBreaker.__init__; opened_at is a history field: the time of the
\* _transition_to_open that started the current open episode.
NewBreaker ==
    [state |-> "closed", failure_count |-> 0, success_count |-> 0,
     last_failure_time |-> None, opened_at |-> None]

\* _should_attempt_reset
ShouldAttemptReset(b, t) ==
    IF b.last_failure_time = None
    THEN FALSE
    ELSE t - b.last_failure_time[1] >= timeout_seconds

\* _transition_to_half_open
TransitionToHalfOpen(b) == [b EXCEPT !.state = "half_open", !.success_count = 0]

\* the `state` property: the breaker after the read (the value read is its .state)
StateProperty(b, t) ==
    IF b.state = "open" /\ ShouldAttemptReset(b, t) THEN TransitionToHalfOpen(b) ELSE b

\* is_request_allowed with the open check left out
IsRequestAllowed_NeverBlocks(b, t) == TRUE

\* is_request_allowed: the value returned (its side effect is StateProperty)
IsRequestAllowed(b, t) == StateProperty(b, t).state # "open"

\* _transition_to_closed
TransitionToClosed(b) ==
    [b EXCEPT !.state = "closed", !.failure_count = 0, !.success_count = 0,
              !.last_failure_time = None, !.opened_at = None]

\* record_success closing the circuit on the first half-open success
RecordSuccess_ClosesAtOnce(b) ==
    IF b.state = "half_open"
    THEN TransitionToClosed([b EXCEPT !.success_count = @ + 1])
    ELSE IF b.state = "closed"
    THEN (IF b.failure_count > 0 THEN [b EXCEPT !.failure_count = 0] ELSE b)
    ELSE b

\* record_success
RecordSuccess(b) ==
    IF b.state = "half_open"
    THEN LET c == [b EXCEPT !.success_count = @ + 1] IN
         IF c.success_count >= success_threshold THEN TransitionToClosed(c) ELSE c
    ELSE IF b.state = "closed"
    THEN (IF b.failure_count > 0 THEN [b EXCEPT !.failure_count = 0] ELSE b)
    ELSE b

\* _transition_to_open
TransitionToOpen(b, t) ==
    [b EXCEPT !.state = "open", !.success_count = 0, !.opened_at = Some(t)]

\* record_failure opening one failure late (> for >=)
RecordFailure_OpensLate(b, t) ==
    LET c == [b EXCEPT !.failure_count = @ + 1, !.last_failure_time = Some(t)] IN
    IF c.state = "half_open"
    THEN TransitionToOpen(c, t)
    ELSE IF c.state = "closed"
    THEN (IF c.failure_count > failure_threshold THEN TransitionToOpen(c, t) ELSE c)
    ELSE c

\* record_failure without the half-open branch
RecordFailure_NoReopen(b, t) ==
    LET c == [b EXCEPT !.failure_count = @ + 1, !.last_failure_time = Some(t)] IN
    IF c.state = "closed"
    THEN (IF c.failure_count >= failure_threshold THEN TransitionToOpen(c, t) ELSE c)
    ELSE c

\* record_failure
RecordFailure(b, t) ==
    LET c == [b EXCEPT !.failure_count = @ + 1, !.last_failure_time = Some(t)] IN
    IF c.state = "half_open"
    THEN TransitionToOpen(c, t)
    ELSE IF c.state = "closed"
    THEN (IF c.failure_count >= failure_threshold THEN TransitionToOpen(c, t) ELSE c)
    ELSE c

\* CircuitBreakerRegistry.get_circuit_breaker: the registry after the lookup
GetCircuitBreaker(reg, name) ==
    IF name \in DOMAIN reg
    THEN reg
    ELSE [n \in (DOMAIN reg) \cup {name} |-> IF n = name THEN NewBreaker ELSE reg[n]]

\* the registry with the breaker of `name` replaced
SetBreaker(reg, name, b) == [reg EXCEPT ![name] = b]

BreakerInit ==
    /\ circuit_breakers = <<>>
    /\ now = 0
    /\ last_call = [op |-> "none", name |-> "none", ret |-> None]

\* registry.get_circuit_breaker(name).state
ApiState(name) ==
    LET reg == GetCircuitBreaker(circuit_breakers, name)
        b == StateProperty(reg[name], now) IN
    /\ circuit_breakers' = SetBreaker(reg, name, b)
    /\ last_call' = [op |-> "state", name |-> name, ret |-> Some(b.state)]
    /\ UNCHANGED now
    /\ UNCHANGED <<sessionVars, routerVars, dlqVars, extVars>>

\* registry.get_circuit_breaker(name).is_request_allowed()
ApiIsRequestAllowed(name) ==
    LET reg == GetCircuitBreaker(circuit_breakers, name) IN
    /\ circuit_breakers' = SetBreaker(reg, name, StateProperty(reg[name], now))
    /\ last_call' = [op |-> "is_request_allowed", name |-> name,
                     ret |-> Some(IsRequestAllowed(reg[name], now))]
    /\ UNCHANGED now
    /\ UNCHANGED <<sessionVars, routerVars, dlqVars, extVars>>

\* registry.get_circuit_breaker(name).record_success()
ApiRecordSuccess(name) ==
    LET reg == GetCircuitBreaker(circuit_breakers, name) IN
    /\ circuit_breakers' = SetBreaker(reg, name, RecordSuccess(reg[name]))
    /\ last_call' = [op |-> "record_success", name |-> name, ret |-> None]
    /\ UNCHANGED now
    /\ UNCHANGED <<sessionVars, routerVars, dlqVars, extVars>>

\* registry.get_circuit_breaker(name).record_failure()
ApiRecordFailure(name) ==
    LET reg == GetCircuitBreaker(circuit_breakers, name) IN
    /\ reg[name].failure_count < MaxFailureCount
    /\ circuit_breakers' = SetBreaker(reg, name, RecordFailure(reg[name], now))
    /\ last_call' = [op |-> "record_failure", name |-> name, ret |-> None]
    /\ UNCHANGED now
    /\ UNCHANGED <<sessionVars, routerVars, dlqVars, extVars>>

\* time.time() advances
Tick(limit) ==
    /\ now < limit
    /\ now' = now + 1
    /\ UNCHANGED <<circuit_breakers, last_call>>

BreakerTick ==
    /\ Tick(MaxBreakerTime)
    /\ UNCHANGED <<sessionVars, routerVars, dlqVars, extVars>>

BreakerNext ==
    \/ \E name \in ProviderNames : ApiState(name)
    \/ \E name \in ProviderNames : ApiIsRequestAllowed(name)
    \/ \E name \in ProviderNames : ApiRecordSuccess(name)
    \/ \E name \in ProviderNames : ApiRecordFailure(name)
    \/ BreakerTick

(***************************************************************************)
(* ROUTER: AgentService.execute_request                                    *)
(***************************************************************************)
\* the execute_request coroutines that may be running at the same time
Slots == {"r1", "r2"}

\* AgentService._providers: the registered providers in registration order
Providers == <<"p1", "p2">>

\* IAgentProvider.get_capabilities of the registered providers (p1, p2) and
\* of the providers of the service with cost tables (pa .. pd)
Capabilities(p) ==
    CASE p = "p1" -> {"text_generation", "quality_medium"}
      [] p = "p2" -> {"text_generation", "code_generation", "quality_high"}
      [] p = "pa" -> {"text_generation", "quality_medium"}
      [] p = "pb" -> {"text_generation", "code_generation", "quality_medium"}
      [] p = "pc" -> {"text_generation", "code_generation", "quality_high"}
      [] OTHER -> {"text_generation", "quality_low"}

\* the AgentRequest shapes submitted: preferred_provider, required_capabilities
\* (max_cost_usd is None in all of them)
RequestKinds ==
    { [preferred |-> None, caps |-> {}],
      [preferred |-> Some("p1"), caps |-> {}],
      [preferred |-> Some("p2"), caps |-> {}],
      [preferred |-> Some("p9"), caps |-> {}],
      [preferred |-> None, caps |-> {"code_generation"}],
      [preferred |-> None, caps |-> {"quantum_computing"}] }

\* what a provider.execute call and the metric emissions around it do:
\* provider: "ok" (response without error), "error" (response with error),
\* "raise"; emit: the MetricsCollector calls inside the try; handler_emit: the
\* MetricsCollector calls inside the except handler.
Outcomes ==
    { o \in [provider : {"ok", "error", "raise"}, emit : {"ok", "raise"},
             handler_emit : {"ok", "raise"}] :
        /\ (o.provider = "raise" => o.emit = "ok")
        /\ (o.emit = "ok" /\ o.provider # "raise" => o.handler_emit = "ok") }

\* a coroutine slot with no request running; seen_ok is a history field: some
\* provider has returned this request a response without error
IdleRequest ==
    [pc |-> "idle", cands |-> <<>>, idx |-> 0, last_error |-> None,
     seen_ok |-> FALSE, returned |-> None]

\* execute_request returns `response` (or raises, provider_used "raised"); the
\* caller takes it in the step that follows (ResponseTaken)
Returned(rq, response) ==
    [rq EXCEPT !.pc = "done", !.idx = 0, !.last_error = None,
               !.returned = Some(response)]

\* no coroutine has just returned: the event loop runs the next callback
NoneDone == \A q \in Slots : requests[q].pc # "done"

\* AgentService(enable_circuit_breaker = one of flags)
RouterInit(flags) ==
    /\ requests = [r \in Slots |-> IdleRequest]
    /\ enable_circuit_breaker \in flags

\* sort_key: 3 high, 2 medium, 1 low, 0 unknown
SortKey(p) ==
    IF "quality_high" \in Capabilities(p) THEN 3
    ELSE IF "quality_medium" \in Capabilities(p) THEN 2
    ELSE IF "quality_low" \in Capabilities(p) THEN 1
    ELSE 0

\* list.sort(key=sort_key, reverse=True): stable, descending by key
RECURSIVE SortDesc(_)
SortDesc(seq) ==
    IF seq = <<>> THEN <<>>
    ELSE LET InsertDesc(x, sorted) ==
                 LET before == SelectSeq(sorted, LAMBDA y : SortKey(y) >= SortKey(x))
                     after == SelectSeq(sorted, LAMBDA y : SortKey(y) < SortKey(x))
                 IN before \o <<x>> \o after
         IN InsertDesc(seq[Len(seq)], SortDesc(SubSeq(seq, 1, Len(seq) - 1)))

\* steps 1, 2 and 4 of execute_request: preferred_provider, required_capabilities, sort
ByPreferred(req) ==
    IF req.preferred # None
    THEN SelectSeq(Providers, LAMBDA p : p = req.preferred[1])
    ELSE Providers

ByCapabilities(req, cands) ==
    IF req.caps # {}
    THEN SelectSeq(cands, LAMBDA p : req.caps \subseteq Capabilities(p))
    ELSE cands

CandidateProviders(req) == SortDesc(ByCapabilities(req, ByPreferred(req)))

\* _create_error_response
CreateErrorResponse(msg) == [provider_used |-> "aal_service", error |-> Some(msg)]

\* The loop of step 5 from candidate i on, up to the next await: candidates whose
\* breaker refuses are passed over; the first admitted one has its execute()
\* started; with none left the "all providers failed" response is returned.
\* Yields the registry and the request.
RECURSIVE Dispatch(_, _, _)
Dispatch(reg, rq, i) ==
    IF i > Len(rq.cands)
    THEN [reg |-> reg,
          rq |-> Returned(rq, CreateErrorResponse(<<"all_failed", rq.last_error>>))]
    ELSE LET p == rq.cands[i] IN
         IF enable_circuit_breaker
         THEN LET reg1 == GetCircuitBreaker(reg, p)
                  reg2 == SetBreaker(reg1, p, StateProperty(reg1[p], now))
              IN IF ~IsRequestAllowed(reg1[p], now)
                 THEN Dispatch(reg2,
                               [rq EXCEPT !.last_error = Some(<<p, "circuit_open">>)],
                               i + 1)
                 ELSE [reg |-> reg2, rq |-> [rq EXCEPT !.pc = "exec", !.idx = i]]
         ELSE [reg |-> reg, rq |-> [rq EXCEPT !.pc = "exec", !.idx = i]]

\* execute_request from its start to the first await (provider.execute) or return
ExecuteRequest(r, req) ==
    /\ NoneDone
    /\ requests[r].pc = "idle"
    /\ LET cands == CandidateProviders(req)
           fresh == [IdleRequest EXCEPT !.cands = cands]
       IN IF cands = <<>>
          THEN /\ requests' = [requests EXCEPT ![r] =
                    Returned(fresh, CreateErrorResponse(
                        IF ByPreferred(req) = <<>> THEN <<"no_providers", None>>
                        ELSE <<"no_capabilities", None>>))]
               /\ UNCHANGED circuit_breakers
          ELSE LET d == Dispatch(circuit_breakers, fresh, 1) IN
               /\ requests' = [requests EXCEPT ![r] = d.rq]
               /\ circuit_breakers' = d.reg
    /\ UNCHANGED <<now, last_call, enable_circuit_breaker>>
    /\ UNCHANGED <<sessionVars, dlqVars, extVars>>

\* the breaker of p after n record_failure calls and, before them, a
\* record_success if `success`
Recorded(reg, p, success, n) ==
    IF ~enable_circuit_breaker THEN reg
    ELSE LET reg1 == GetCircuitBreaker(reg, p)
             b0 == IF success THEN RecordSuccess(reg1[p]) ELSE reg1[p]
             b1 == IF n >= 1 THEN RecordFailure(b0, now) ELSE b0
             b2 == IF n >= 2 THEN RecordFailure(b1, now) ELSE b1
         IN SetBreaker(reg1, p, b2)

\* provider.execute returns or raises; the rest of the loop body runs, and the
\* loop goes on to the next candidates up to the next await or return
ProviderReturns(r, o) ==
    /\ NoneDone
    /\ requests[r].pc = "exec"
    /\ LET rq == requests[r]
           p == rq.cands[rq.idx]
           traced == [rq EXCEPT !.seen_ok = @ \/ o.provider = "ok"]
           \* record_success is reached when the response has no error
           success == o.provider = "ok"
           \* record_failure: in the else branch (error response) and in the handler
           failures == (IF o.provider = "error" THEN 1 ELSE 0)
                       + (IF o.provider = "raise" \/ o.emit = "raise" THEN 1 ELSE 0)
           reg == Recorded(circuit_breakers, p, success, failures)
       IN IF o.provider = "ok" /\ o.emit = "ok"
          THEN \* return response
               /\ requests' = [requests EXCEPT ![r] =
                    Returned(traced, [provider_used |-> p, error |-> None])]
               /\ circuit_breakers' = reg
          ELSE IF o.handler_emit = "raise"
          THEN \* the handler's own metric emission raises: execute_request raises
               /\ requests' = [requests EXCEPT ![r] =
                    Returned(traced, [provider_used |-> "raised", error |-> Some(<<p, "raised">>)])]
               /\ circuit_breakers' = reg
          ELSE LET failed == [traced EXCEPT !.last_error = Some(<<p, "failed">>)]
                   d == Dispatch(reg, failed, rq.idx + 1)
               IN /\ requests' = [requests EXCEPT ![r] = d.rq]
                  /\ circuit_breakers' = d.reg
    /\ UNCHANGED <<now, last_call, enable_circuit_breaker>>
    /\ UNCHANGED <<sessionVars, dlqVars, extVars>>

\* the caller of execute_request has its response
ResponseTaken(r) ==
    /\ requests[r].pc = "done"
    /\ requests' = [requests EXCEPT ![r] = IdleRequest]
    /\ UNCHANGED <<circuit_breakers, now, last_call, enable_circuit_breaker>>
    /\ UNCHANGED <<sessionVars, dlqVars, extVars>>

RouterTick ==
    /\ NoneDone
    /\ Tick(MaxRouterTime)
    /\ UNCHANGED routerVars
    /\ UNCHANGED <<sessionVars, dlqVars, extVars>>

RouterNext ==
    \/ \E r \in Slots, req \in RequestKinds : ExecuteRequest(r, req)
    \/ \E r \in Slots, o \in Outcomes : ProviderReturns(r, o)
    \/ \E r \in Slots : ResponseTaken(r)
    \/ RouterTick

(***************************************************************************)
(* DEAD LETTER QUEUE: DeadLetterQueue and EventRetryWorker                 *)
(* clock is datetime.now() in minutes; event_failures is the table, row id *)
(* |-> row.                                                                *)
(***************************************************************************)
MaxClock == 160
MaxRetryCount == 3

\* the row ids the database can hand out
FailureIds == {"f1", "f2"}

\* the literal 3 of get_pending_retries and mark_retry_attempt
MaxRetries == 3
\* minutes until the first retry (record_failure)
FirstRetryMinutes == 5
\* the list [5, 30, 120] of mark_retry_attempt (indexed from 0 in the source)
backoff_minutes == <<5, 30, 120>>
\* get_pending_retries(limit=100) and cleanup_old_resolved(days=30) of the worker
PendingLimit == 100
CleanupDays == 30
MinutesOf(days) == days * 24 * 60

\* outcomes of EventBus.publish in a replay: the NOTIFY is sent; connect()
\* raises (nothing recorded); the NOTIFY raises and the bus records the
\* failure; the NOTIFY raises and the DLQ insert fails too
PublishOutcomes == {"ok", "connect_failed", "notify_failed", "notify_failed_dlq_failed"}

DlqInit ==
    /\ event_failures = <<>>
    /\ clock = 0
    /\ worker = [pc |-> "idle", pending |-> {}]

\* the row record_failure inserts at time t
NewFailure(t) ==
    [status |-> "pending", retry_count |-> 0,
     next_retry_at |-> Some(t + FirstRetryMinutes), resolved_at |-> None]

FreeIds(table) == FailureIds \ DOMAIN table

\* the id the database gives the next row
NextId(table) == CHOOSE id \in FreeIds(table) : TRUE

\* record_failure: insert a row; an exception of the insert is swallowed
DlqRecordFailure(table, t, db_ok) ==
    IF db_ok
    THEN [i \in DOMAIN table \cup {NextId(table)} |->
             IF i \in DOMAIN table THEN table[i] ELSE NewFailure(t)]
    ELSE table

\* the rows the query of get_pending_retries matches at time t
DueRetries(table, t) ==
    {id \in DOMAIN table :
        /\ table[id].status = "pending"
        /\ table[id].next_retry_at # None
        /\ table[id].next_retry_at[1] <= t
        /\ table[id].retry_count < MaxRetries}

\* get_pending_retries: the possible results (no ORDER BY, so any `limit` of
\* the matching rows); on a database error the empty list
GetPendingRetries(table, t, limit, db_ok) ==
    IF ~db_ok THEN {{}}
    ELSE IF Cardinality(DueRetries(table, t)) <= limit THEN {DueRetries(table, t)}
    ELSE {S \in SUBSET DueRetries(table, t) : Cardinality(S) = limit}

\* mark_retry_attempt keeping next_retry_at when the cap is reached
MarkRetryAttempt_KeepsNextRetry(table, id, success, t, db_ok) ==
    IF ~db_ok \/ id \notin DOMAIN table THEN table
    ELSE IF success
    THEN [table EXCEPT ![id].status = "resolved", ![id].resolved_at = Some(t)]
    ELSE LET retry_count == table[id].retry_count + 1 IN
         IF retry_count >= MaxRetries
         THEN [table EXCEPT ![id].retry_count = retry_count, ![id].status = "failed"]
         ELSE [table EXCEPT ![id].retry_count = retry_count,
                            ![id].next_retry_at = Some(t + backoff_minutes[retry_count + 1]),
                            ![id].status = "pending"]

\* mark_retry_attempt taking the backoff of the old retry count
MarkRetryAttempt_OldCountBackoff(table, id, success, t, db_ok) ==
    IF ~db_ok \/ id \notin DOMAIN table THEN table
    ELSE IF success
    THEN [table EXCEPT ![id].status = "resolved", ![id].resolved_at = Some(t)]
    ELSE LET retry_count == table[id].retry_count + 1 IN
         IF retry_count >= MaxRetries
         THEN [table EXCEPT ![id].retry_count = retry_count,
                            ![id].next_retry_at = None,
                            ![id].status = "failed"]
         ELSE [table EXCEPT ![id].retry_count = retry_count,
                            ![id].next_retry_at = Some(t + backoff_minutes[retry_count]),
                            ![id].status = "pending"]

\* mark_retry_attempt: a database error (or, for a failed attempt, a missing
\* row) raises inside the try and leaves the table as it is
MarkRetryAttempt(table, id, success, t, db_ok) ==
    IF ~db_ok \/ id \notin DOMAIN table THEN table
    ELSE IF success
    THEN [table EXCEPT ![id].status = "resolved", ![id].resolved_at = Some(t)]
    ELSE LET retry_count == table[id].retry_count + 1 IN
         IF retry_count >= MaxRetries
         THEN [table EXCEPT ![id].retry_count = retry_count,
                            ![id].next_retry_at = None,
                            ![id].status = "failed"]
         ELSE [table EXCEPT ![id].retry_count = retry_count,
                            ![id].next_retry_at = Some(t + backoff_minutes[retry_count + 1]),
                            ![id].status = "pending"]

\* cleanup_old_resolved
CleanupOldResolved(table, t, days) ==
    LET kept == {id \in DOMAIN table :
                    ~(/\ table[id].status = "resolved"
                      /\ table[id].resolved_at # None
                      /\ table[id].resolved_at[1] < t - MinutesOf(days))} IN
    [id \in kept |-> table[id]]

\* a caller of DeadLetterQueue.record_failure (the bus, on a failed publish
\* or a raising handler)
RecordFailureCall(db_ok) ==
    /\ db_ok => FreeIds(event_failures) # {}
    /\ event_failures' = DlqRecordFailure(event_failures, clock, db_ok)
    /\ UNCHANGED <<clock, worker>>
    /\ UNCHANGED <<sessionVars, breakerVars, routerVars, extVars>>

\* a caller of DeadLetterQueue.mark_retry_attempt
MarkRetryAttemptCall(id, success, db_ok) ==
    /\ id \in DOMAIN event_failures
    /\ success \/ event_failures[id].retry_count < MaxRetryCount
    /\ event_failures' = MarkRetryAttempt(event_failures, id, success, clock, db_ok)
    /\ UNCHANGED <<clock, worker>>
    /\ UNCHANGED <<sessionVars, breakerVars, routerVars, extVars>>

\* EventRetryWorker.run up to its loop: get_pending_retries, return if empty
WorkerRun(db_ok) ==
    /\ worker.pc = "idle"
    /\ \E pending \in GetPendingRetries(event_failures, clock, PendingLimit, db_ok) :
          /\ worker' = IF pending = {} THEN worker
                       ELSE [pc |-> "retrying", pending |-> pending]
    /\ UNCHANGED <<event_failures, clock>>
    /\ UNCHANGED <<sessionVars, breakerVars, routerVars, extVars>>

\* EventRetryWorker._retry_event for one row of the list: publish, then
\* mark_retry_attempt with the outcome
WorkerRetryEvent(id, outcome, db_ok) ==
    /\ worker.pc = "retrying"
    /\ id \in worker.pending
    /\ outcome = "notify_failed" => FreeIds(event_failures) # {}
    /\ (outcome # "ok" /\ id \in DOMAIN event_failures)
          => event_failures[id].retry_count < MaxRetryCount
    /\ LET published == IF outcome \in {"notify_failed", "notify_failed_dlq_failed"}
                        THEN DlqRecordFailure(event_failures, clock,
                                              outcome = "notify_failed")
                        ELSE event_failures IN
       event_failures' = MarkRetryAttempt(published, id, outcome = "ok", clock, db_ok)
    /\ worker' = [worker EXCEPT !.pending = @ \ {id}]
    /\ UNCHANGED clock
    /\ UNCHANGED <<sessionVars, breakerVars, routerVars, extVars>>

\* EventRetryWorker.run after its loop: cleanup_old_resolved(days=30)
WorkerCleanup ==
    /\ worker.pc = "retrying"
    /\ worker.pending = {}
    /\ event_failures' = CleanupOldResolved(event_failures, clock, CleanupDays)
    /\ worker' = [pc |-> "idle", pending |-> {}]
    /\ UNCHANGED clock
    /\ UNCHANGED <<sessionVars, breakerVars, routerVars, extVars>>

\* the times at which some row becomes due
DueTimes(table) ==
    {table[id].next_retry_at[1] : id \in {i \in DOMAIN table : table[i].next_retry_at # None}}

\* time passes until t, the moment some row becomes due
DlqTick(t) ==
    /\ t \in DueTimes(event_failures)
    /\ clock < t
    /\ t <= MaxClock
    /\ clock' = t
    /\ UNCHANGED <<event_failures, worker>>
    /\ UNCHANGED <<sessionVars, breakerVars, routerVars, extVars>>

DlqNext ==
    \/ \E db_ok \in BOOLEAN : RecordFailureCall(db_ok)
    \/ \E id \in FailureIds, success \in BOOLEAN, db_ok \in BOOLEAN :
          MarkRetryAttemptCall(id, success, db_ok)
    \/ \E db_ok \in BOOLEAN : WorkerRun(db_ok)
    \/ \E id \in FailureIds, outcome \in PublishOutcomes, db_ok \in BOOLEAN :
          WorkerRetryEvent(id, outcome, db_ok)
    \/ WorkerCleanup
    \/ \E t \in 1..MaxClock : DlqTick(t)

(***************************************************************************)
(* WORKER SUPERVISOR: WorkerSupervisor over BaseWorker.start loops         *)
(* A supervision task rests in one of: "not_created", "created" (scheduled,*)
(* not yet run), "run" (suspended inside worker.run()), "interval_sleep"   *)
(* (BaseWorker.start's sleep), "backoff_sleep" (the supervisor's sleep),   *)
(* "spinning" (a loop that never suspends), "done".                        *)
(***************************************************************************)
MaxCrashes == 3

\* the workers added to the supervisor
WorkerNames == {"w1", "w2"}

\* backoff = 1 and max_backoff = 300 of _supervise_worker
InitialBackoff == 1
max_backoff == 300

Min(a, b) == IF a <= b THEN a ELSE b

\* add_worker: the health entry, with the worker and its task not yet started;
\* last_run is a history field: how the worker's latest run() ended
NewSupervised ==
    [pc |-> "not_created", running |-> FALSE, backoff |-> InitialBackoff,
     status |-> "not_started", crashes |-> 0, cancel |-> FALSE,
     last_run |-> "none"]

SupervisorInit ==
    /\ supervisor = [running |-> FALSE, stopped |-> FALSE]
    /\ supervised = [w \in WorkerNames |-> NewSupervised]

\* no task is in a loop that never suspends (such a task keeps the event loop)
NoSpin == \A w \in WorkerNames : supervised[w].pc # "spinning"

\* _supervise_worker from the top of its while loop up to the next suspension.
\* start_raises: worker.start() raises outside its try (after setting _running).
SuperviseLoop(t, sup_running, start_raises) ==
    IF ~sup_running
    THEN [t EXCEPT !.pc = "done"]
    ELSE IF t.running
    THEN \* start() returns at once: "exited normally", backoff = 1, and again
         [t EXCEPT !.pc = "spinning", !.status = "stopped", !.backoff = InitialBackoff]
    ELSE IF start_raises
    THEN [t EXCEPT !.running = TRUE, !.pc = "backoff_sleep", !.status = "crashed",
                   !.crashes = @ + 1]
    ELSE [t EXCEPT !.running = TRUE, !.pc = "run", !.status = "running"]

\* worker.start() has returned: health "stopped", backoff reset, loop again
StartReturned(t, sup_running, start_raises) ==
    SuperviseLoop([t EXCEPT !.status = "stopped", !.backoff = InitialBackoff],
                  sup_running, start_raises)

\* BaseWorker.start after a run() or an interval sleep: go on while _running
WorkerLoop(t, sup_running, start_raises) ==
    IF t.running
    THEN [t EXCEPT !.pc = "run"]
    ELSE StartReturned(t, sup_running, start_raises)

\* WorkerSupervisor.start: one supervision task per worker
SupervisorStart ==
    /\ NoSpin
    /\ ~supervisor.running /\ ~supervisor.stopped
    /\ supervisor' = [supervisor EXCEPT !.running = TRUE]
    /\ supervised' = [w \in WorkerNames |-> [supervised[w] EXCEPT !.pc = "created"]]
    /\ UNCHANGED <<coreVars, assemblerVars, busVars, moreVars>>

\* a supervision task runs for the first time
TaskBegins(w, start_raises) ==
    /\ NoSpin
    /\ supervised[w].pc = "created" /\ ~supervised[w].cancel
    /\ start_raises => supervised[w].crashes < MaxCrashes
    /\ supervised' = [supervised EXCEPT
                         ![w] = SuperviseLoop(@, supervisor.running, start_raises)]
    /\ UNCHANGED <<supervisor, coreVars, assemblerVars, busVars, moreVars>>

\* worker.run() returns or raises an Exception: BaseWorker.start logs it and
\* sleeps interval_seconds if the worker is still running
RunEnds(w, raised, start_raises) ==
    /\ NoSpin
    /\ supervised[w].pc = "run" /\ ~supervised[w].cancel
    /\ start_raises => supervised[w].crashes < MaxCrashes
    /\ LET t == [supervised[w] EXCEPT !.last_run = IF raised THEN "raised" ELSE "returned"] IN
       supervised' = [supervised EXCEPT
                         ![w] = IF t.running
                                THEN [t EXCEPT !.pc = "interval_sleep"]
                                ELSE StartReturned(t, supervisor.running, start_raises)]
    /\ UNCHANGED <<supervisor, coreVars, assemblerVars, busVars, moreVars>>

\* asyncio.sleep(interval_seconds) of BaseWorker.start is over
IntervalSleepEnds(w, start_raises) ==
    /\ NoSpin
    /\ supervised[w].pc = "interval_sleep" /\ ~supervised[w].cancel
    /\ start_raises => supervised[w].crashes < MaxCrashes
    /\ supervised' = [supervised EXCEPT
                         ![w] = WorkerLoop(@, supervisor.running, start_raises)]
    /\ UNCHANGED <<supervisor, coreVars, assemblerVars, busVars, moreVars>>

\* asyncio.sleep(backoff) of _supervise_worker is over: double the backoff
BackoffSleepEnds(w, start_raises) ==
    /\ NoSpin
    /\ supervised[w].pc = "backoff_sleep" /\ ~supervised[w].cancel
    /\ start_raises => supervised[w].crashes < MaxCrashes
    /\ supervised' = [supervised EXCEPT
                         ![w] = SuperviseLoop(
                                    [@ EXCEPT !.backoff = Min(@ * 2, max_backoff)],
                                    supervisor.running, start_raises)]
    /\ UNCHANGED <<supervisor, coreVars, assemblerVars, busVars, moreVars>>

\* a cancelled task is resumed: CancelledError ends it
TaskCancelled(w) ==
    /\ NoSpin
    /\ supervised[w].cancel
    /\ supervised[w].pc \in {"created", "run", "interval_sleep", "backoff_sleep"}
    /\ supervised' = [supervised EXCEPT ![w] = [@ EXCEPT !.pc = "done"]]
    /\ UNCHANGED <<supervisor, coreVars, assemblerVars, busVars, moreVars>>

\* BaseWorker.stop called on one worker
WorkerStop(w) ==
    /\ NoSpin
    /\ supervised[w].running
    /\ supervised' = [supervised EXCEPT ![w] = [@ EXCEPT !.running = FALSE]]
    /\ UNCHANGED <<supervisor, coreVars, assemblerVars, busVars, moreVars>>

\* WorkerSupervisor.stop: no step of it suspends, so it is one step. A worker
\* stop() that raises (after clearing its flag) is logged and passed over.
SupervisorStop ==
    /\ NoSpin
    /\ supervisor.running
    /\ supervisor' = [running |-> FALSE, stopped |-> TRUE]
    /\ supervised' = [w \in WorkerNames |->
                         [supervised[w] EXCEPT
                             !.running = FALSE,
                             !.cancel = (supervised[w].pc # "done")]]
    /\ UNCHANGED <<coreVars, assemblerVars, busVars, moreVars>>

SupervisorNext ==
    \/ SupervisorStart
    \/ \E w \in WorkerNames, start_raises \in BOOLEAN : TaskBegins(w, start_raises)
    \/ \E w \in WorkerNames, raised \in BOOLEAN, start_raises \in BOOLEAN :
          RunEnds(w, raised, start_raises)
    \/ \E w \in WorkerNames, start_raises \in BOOLEAN : IntervalSleepEnds(w, start_raises)
    \/ \E w \in WorkerNames, start_raises \in BOOLEAN : BackoffSleepEnds(w, start_raises)
    \/ \E w \in WorkerNames : TaskCancelled(w)
    \/ \E w \in WorkerNames : WorkerStop(w)
    \/ SupervisorStop

(***************************************************************************)
(* CONTEXT ASSEMBLY: ContextAssembler and ResilientContextAssembler        *)
(* An entry is the token count estimate_object_tokens gives it (the length *)
(* of its JSON text // 4, never below 1).  An AssembledContext is a record *)
(* of what it holds; `session` and `recent` are the attributes             *)
(* assemble_context sets, `messages` and `facts` the model's fields.       *)
(***************************************************************************)
MaxEntries == 2

\* token estimates of single messages and entries, and of whole sessions
TokenCosts == {600, 1500}
SessionCosts == {700, 3000}
\* the max_tokens arguments tried
Budgets == {0, 1200, 2100, 3500}

\* the thresholds of assemble_context and _build_context
WorkingGate == 2000
WorkingReserve == 1000
LongTermGate == 1000

RECURSIVE SeqsUpTo(_, _)
\* the sequences over S of length at most n
SeqsUpTo(S, n) ==
    IF n = 0 THEN {<<>>}
    ELSE LET shorter == SeqsUpTo(S, n - 1) IN
         shorter \cup {Append(q, x) : q \in {r \in shorter : Len(r) = n - 1}, x \in S}

EntryLists == SeqsUpTo(TokenCosts, MaxEntries)

RECURSIVE SumSeq(_)
SumSeq(q) == IF q = <<>> THEN 0 ELSE Head(q) + SumSeq(Tail(q))

\* AssembledContext(): every field at its default
EmptyContext(status) ==
    [session |-> None, messages |-> <<>>, recent |-> <<>>, facts |-> <<>>,
     total_tokens |-> 0, status |-> status]

\* the result of a call: a context returned, or an exception raised
ReturnedContext(c) == [outcome |-> "returned", context |-> c]
RaisedError(e) == [outcome |-> "raised", error |-> e]

RECURSIVE TakeAll(_, _, _)
\* a loop of _build_context: every entry that leaves more than `reserve`
\* tokens is taken, the others are passed over; gives <<taken, remaining>>
TakeAll(entries, remaining, reserve) ==
    IF entries = <<>> THEN <<(<<>>), remaining>>
    ELSE IF remaining - Head(entries) > reserve
    THEN LET rest == TakeAll(Tail(entries), remaining - Head(entries), reserve) IN
         <<(<<Head(entries)>>) \o rest[1], rest[2]>>
    ELSE TakeAll(Tail(entries), remaining, reserve)

RECURSIVE TakeWhileFits(_, _, _)
\* a loop of assemble_context: entries are taken until the first that does
\* not leave more than `reserve` tokens (break); gives <<taken, remaining>>
TakeWhileFits(entries, remaining, reserve) ==
    IF entries = <<>> THEN <<(<<>>), remaining>>
    ELSE IF remaining - Head(entries) > reserve
    THEN LET rest == TakeWhileFits(Tail(entries), remaining - Head(entries), reserve) IN
         <<(<<Head(entries)>>) \o rest[1], rest[2]>>
    ELSE <<(<<>>), remaining>>

Tagged(layer, entries) == [i \in 1..Len(entries) |-> [layer |-> layer, tokens |-> entries[i]]]

\* _build_context with the working-memory reserve taken off the wrong side:
\* an entry is taken while more than -1000 tokens remain
BuildContext_ReserveSignFlipped(session_msgs, working_entries, longterm_entries, max_tokens, status) ==
    LET msgs == TakeAll(session_msgs, max_tokens, 0)
        work == TakeAll(working_entries, msgs[2], 0 - WorkingReserve) IN
    IF longterm_entries # <<>>
    THEN RaisedError("AttributeError")
    ELSE ReturnedContext(
             [session |-> None, messages |-> msgs[1], recent |-> <<>>,
              facts |-> Tagged("working", work[1]),
              total_tokens |-> SumSeq(msgs[1]) + SumSeq(work[1]),
              status |-> status])

\* _build_context.  A long-term entry makes it raise: it reads fact.importance,
\* and LongTermMemoryEntry has importance_score only.
BuildContext(session_msgs, working_entries, longterm_entries, max_tokens, status) ==
    LET msgs == TakeAll(session_msgs, max_tokens, 0)
        work == TakeAll(working_entries, msgs[2], WorkingReserve) IN
    IF longterm_entries # <<>>
    THEN RaisedError("AttributeError")
    ELSE ReturnedContext(
             [session |-> None, messages |-> msgs[1], recent |-> <<>>,
              facts |-> Tagged("working", work[1]),
              total_tokens |-> SumSeq(msgs[1]) + SumSeq(work[1]),
              status |-> status])

\* assemble_context.  session: None (no id given, or get_session found
\* nothing) or the stored session; recent and facts: what get_recent and
\* get_important return; access_ok: update_access does not raise.
\* AssembledContext declares neither `session` nor `recent_memories`, so
\* setting the one and appending to the other raise.
AssembleContext(session, recent, facts, max_tokens, access_ok) ==
    IF session # None
    THEN RaisedError("ValueError")
    ELSE LET work == IF max_tokens > WorkingGate
                     THEN TakeWhileFits(recent, max_tokens, WorkingReserve)
                     ELSE <<(<<>>), max_tokens>>
             long == IF work[2] > LongTermGate
                     THEN TakeWhileFits(facts, work[2], 0)
                     ELSE <<(<<>>), work[2]>> IN
         IF work[1] # <<>>
         THEN RaisedError("AttributeError")
         ELSE IF long[1] # <<>> /\ ~access_ok
         THEN RaisedError("update_access")
         ELSE ReturnedContext(
                  [session |-> None, messages |-> <<>>, recent |-> <<>>,
                   facts |-> Tagged("longterm", long[1]),
                   total_tokens |-> max_tokens - long[2],
                   status |-> "healthy"])

\* the layers assemble_context asks: get_session when a session id is given,
\* get_recent and get_important behind their gates, nothing after a raise
AssembleContextFetches(session_id, session, recent, max_tokens) ==
    (IF session_id # None THEN {"session"} ELSE {})
    \cup (IF session # None THEN {}
          ELSE LET work == IF max_tokens > WorkingGate
                           THEN TakeWhileFits(recent, max_tokens, WorkingReserve)
                           ELSE <<(<<>>), max_tokens>> IN
               (IF max_tokens > WorkingGate THEN {"working"} ELSE {})
               \cup (IF work[1] = <<>> /\ work[2] > LongTermGate
                     THEN {"longterm"} ELSE {}))

\* the sessions get_session can return: total token estimate and messages
Sessions == {[tokens |-> c, messages |-> <<c>>] : c \in SessionCosts}

\* no assembly call has been made
AssemblerInit ==
    /\ assembled = [op |-> "none"]
    /\ context_cache = <<>>

Pending == [outcome |-> "pending"]

\* the calls of assemble_context a caller can make, with what the stores hold
AssembleContextCalls ==
    {c \in [op : {"assemble_context"},
            session_id : {None, Some("s1")},
            session : {None} \cup {Some(x) : x \in Sessions},
            working : EntryLists, longterm : EntryLists,
            max_tokens : Budgets, access_ok : BOOLEAN,
            fetched : {{}}, result : {Pending}] :
        c.session # None => c.session_id # None}

\* the calls of _build_context
BuildContextCalls ==
    [op : {"_build_context"},
     session_msgs : EntryLists,
     working : EntryLists, longterm : EntryLists,
     max_tokens : Budgets, result : {Pending}]

\* one call is about to be made
AssemblerInputs ==
    /\ assembled \in AssembleContextCalls \cup BuildContextCalls
    /\ context_cache = <<>>

\* ContextAssembler.assemble_context runs
AssembleContextCall ==
    /\ assembled.op = "assemble_context"
    /\ assembled.result = Pending
    /\ assembled' = [assembled EXCEPT
                        !.result =
                            AssembleContext(assembled.session, assembled.working,
                                            assembled.longterm, assembled.max_tokens,
                                            assembled.access_ok),
                        !.fetched =
                            AssembleContextFetches(assembled.session_id, assembled.session,
                                                   assembled.working, assembled.max_tokens)]
    /\ UNCHANGED <<context_cache, coreVars, supervisorVars, busVars, moreVars>>

\* ContextAssembler._build_context runs
BuildContextCall ==
    /\ assembled.op = "_build_context"
    /\ assembled.result = Pending
    /\ assembled' = [assembled EXCEPT !.result =
                        BuildContext(assembled.session_msgs, assembled.working,
                                     assembled.longterm, assembled.max_tokens,
                                     "healthy")]
    /\ UNCHANGED <<context_cache, coreVars, supervisorVars, busVars, moreVars>>

AssemblerNext ==
    \/ AssembleContextCall
    \/ BuildContextCall

(***************************************************************************)
(* ResilientContextAssembler.  A layer's condition is what its store does  *)
(* when asked: "ok" (it answers), "error" (it raises) or "breaker_open"    *)
(* (the layer's breaker refuses the call).                                 *)
(***************************************************************************)
Users == {"u1", "u2"}
ResilientSessions == {"s1"}
CacheKeys == Users \X ResilientSessions
LayerConditions == {"ok", "error", "breaker_open"}
ResilientBudget == 2100
\* what a store that answers can hold
StoredMessages == {<<600>>}
StoredWorking == {<<>>, <<600>>, <<1500>>, <<1500, 600>>}
StoredFacts == {<<600>>}

\* what a fetch gives: the entries, or the exception it raises
Fetched(entries) == [outcome |-> "returned", entries |-> entries]
FetchError(condition) ==
    RaisedError(IF condition = "breaker_open" THEN "CircuitBreakerError"
                ELSE "MemoryServiceError")

\* _get_session_memory: SessionMemory has no get_messages, so the call raises
\* AttributeError whatever Redis does, and that becomes MemoryServiceError
GetSessionMemory(condition, msgs) ==
    IF condition = "breaker_open" THEN FetchError(condition)
    ELSE RaisedError("MemoryServiceError")

\* _get_working_memory
GetWorkingMemory(condition, entries) ==
    IF condition = "ok" THEN Fetched(entries) ELSE FetchError(condition)

\* _get_longterm_memory: get_important takes min_importance, not min_score, so
\* the call raises TypeError whatever Postgres does
GetLongtermMemory(condition, entries) ==
    IF condition = "breaker_open" THEN FetchError(condition)
    ELSE RaisedError("MemoryServiceError")

\* the stores _assemble_full_context asks: get_messages does not exist and
\* get_important refuses min_score, so only working memory is ever asked,
\* unless its breaker refuses the call
AssembleFullContextFetches(conditions) ==
    IF conditions.working # "breaker_open" THEN {"working"} ELSE {}

\* _assemble_full_context: a fetch that raises leaves its list empty
AssembleFullContext(session, working, longterm, max_tokens) ==
    LET EntriesOf(f) == IF f.outcome = "returned" THEN f.entries ELSE <<>>
        status == IF \E f \in {session, working, longterm} : f.outcome = "raised"
                  THEN "degraded" ELSE "healthy" IN
    BuildContext(EntriesOf(session), EntriesOf(working), EntriesOf(longterm),
                 max_tokens, status)

HasKey(cache, key) == key \in DOMAIN cache
PutKey(cache, key, value) ==
    [k \in DOMAIN cache \cup {key} |-> IF k = key THEN value ELSE cache[k]]

\* _get_cached_context; gives <<context, cache>> (the cached object itself is
\* marked "cached")
GetCachedContext(cache, key) ==
    IF HasKey(cache, key)
    THEN LET cached == [cache[key] EXCEPT !.status = "cached"] IN
         <<cached, PutKey(cache, key, cached)>>
    ELSE <<EmptyContext("no_cache"), cache>>

\* ResilientContextAssembler.assemble_context; gives <<context, cache>>
ResilientAssembleContext(cache, key, session, working, longterm, max_tokens) ==
    LET full == AssembleFullContext(session, working, longterm, max_tokens) IN
    IF full.outcome = "returned"
    THEN <<full.context, PutKey(cache, key, full.context)>>
    ELSE IF full.error = "CircuitBreakerError"
    THEN GetCachedContext(cache, key)
    ELSE <<EmptyContext("error"), cache>>

\* a caller of ResilientContextAssembler.assemble_context(user, session_id)
ResilientAssembleCall(key, conditions, msgs, working, longterm, max_tokens) ==
    LET result == ResilientAssembleContext(
                      context_cache, key,
                      GetSessionMemory(conditions.session, msgs),
                      GetWorkingMemory(conditions.working, working),
                      GetLongtermMemory(conditions.longterm, longterm),
                      max_tokens) IN
    /\ assembled' = [op |-> "resilient", key |-> key, conditions |-> conditions,
                     session_msgs |-> msgs, working |-> working,
                     longterm |-> longterm, max_tokens |-> max_tokens,
                     fetched |-> AssembleFullContextFetches(conditions),
                     result |-> ReturnedContext(result[1])]
    /\ context_cache' = result[2]
    /\ UNCHANGED <<coreVars, supervisorVars, busVars, moreVars>>

\* what a store holds matters only when it answers
HeldBy(condition, lists) == IF condition = "ok" THEN lists ELSE {<<>>}

ResilientNext ==
    \E key \in CacheKeys,
       conditions \in [session : LayerConditions, working : LayerConditions,
                       longterm : LayerConditions] :
       \E msgs \in HeldBy(conditions.session, StoredMessages),
          working \in HeldBy(conditions.working, StoredWorking),
          longterm \in HeldBy(conditions.longterm, StoredFacts),
          max_tokens \in {0, ResilientBudget} :
          ResilientAssembleCall(key, conditions, msgs, working, longterm, max_tokens)

(***************************************************************************)
(* EVENT BUS: EventBus.subscribe, publish and _handle_notification         *)
(* An event is one publish call's Event: its event_id is the call's name.  *)
(* A step is one stretch of a task between two suspensions.                *)
(***************************************************************************)
MaxSubscribers == 2

EventIds == {"e1", "e2"}
EventTypes == {"ta", "tb"}
Handlers == {"h1", "h2"}

\* the payload and user_id arguments of each publish call
PayloadOf(e) == IF e = "e1" THEN "payload1" ELSE "payload2"
UserOf(e) == IF e = "e1" THEN None ELSE Some("u1")

\* Event(event_type=..., payload=..., user_id=...)
NewEvent(e, event_type) ==
    [event_id |-> e, event_type |-> event_type,
     payload |-> PayloadOf(e), user_id |-> UserOf(e)]

IdlePublisher == [pc |-> "idle", event |-> None, error |-> "none", dlq_failed |-> FALSE]
NoDispatch == [pc |-> "none", event_type |-> "none", idx |-> 0,
               snapshot |-> <<>>, started |-> <<>>, finished |-> <<>>]

BusInit ==
    /\ bus = [pool |-> FALSE, listening |-> FALSE]
    /\ subscribers = [t \in EventTypes |-> <<>>]
    /\ publishers = [e \in EventIds |-> IdlePublisher]
    /\ dispatches = [e \in EventIds |-> NoDispatch]
    /\ dlq_records = <<>>

\* subscribe(event_type, handler): the handler is appended, never deduplicated
Subscribe(event_type, handler) ==
    /\ Len(subscribers[event_type]) < MaxSubscribers
    /\ subscribers' = [subscribers EXCEPT ![event_type] = Append(@, handler)]
    /\ UNCHANGED <<bus, publishers, dispatches, dlq_records>>
    /\ UNCHANGED <<coreVars, supervisorVars, assemblerVars, moreVars>>

\* start_listening: connect and add the listener to the channel
StartListening ==
    /\ ~bus.listening
    /\ bus' = [pool |-> TRUE, listening |-> TRUE]
    /\ UNCHANGED <<subscribers, publishers, dispatches, dlq_records>>
    /\ UNCHANGED <<coreVars, supervisorVars, assemblerVars, moreVars>>

\* publish, up to the NOTIFY: `await self.connect()` stands before the try,
\* so a pool that cannot be created raises to the caller at once
PublishCall(e, event_type, connect_ok) ==
    /\ publishers[e].pc = "idle"
    /\ IF ~bus.pool /\ ~connect_ok
       THEN /\ publishers' = [publishers EXCEPT ![e].pc = "raised",
                                                ![e].error = "connect"]
            /\ UNCHANGED bus
       ELSE /\ publishers' = [publishers EXCEPT
                                 ![e].pc = "notify",
                                 ![e].event = Some(NewEvent(e, event_type))]
            /\ bus' = [bus EXCEPT !.pool = TRUE]
    /\ UNCHANGED <<subscribers, dispatches, dlq_records>>
    /\ UNCHANGED <<coreVars, supervisorVars, assemblerVars, moreVars>>

\* dlq.record_failure as publish calls it: the row of the event, unless the
\* insert fails (record_failure and publish both swallow that)
RecordPublishFailure(records, event, db_ok) ==
    IF db_ok THEN Append(records, event) ELSE records

\* publish, the NOTIFY and what follows it.  A NOTIFY that went through
\* reaches the listener if there is one; a failed one is recorded in the
\* DLQ and then raised again.
PublishNotify(e, notify_ok, db_ok) ==
    /\ publishers[e].pc = "notify"
    /\ IF notify_ok
       THEN /\ publishers' = [publishers EXCEPT ![e].pc = "returned"]
            /\ dispatches' = IF bus.listening
                             THEN [dispatches EXCEPT
                                      ![e].pc = "notified",
                                      ![e].event_type = publishers[e].event[1].event_type]
                             ELSE dispatches
            /\ UNCHANGED dlq_records
       ELSE /\ dlq_records' = RecordPublishFailure(dlq_records, publishers[e].event[1], db_ok)
            /\ publishers' = [publishers EXCEPT ![e].pc = "raised",
                                                ![e].error = "notify",
                                                ![e].dlq_failed = ~db_ok]
            /\ UNCHANGED dispatches
    /\ UNCHANGED <<bus, subscribers>>
    /\ UNCHANGED <<coreVars, supervisorVars, assemblerVars, moreVars>>

\* the `for handler in handlers` loop goes on: the next handler of the (live)
\* list is called and runs to its first suspension, or the loop ends
NextHandler(d, handlers) ==
    IF d.idx < Len(handlers)
    THEN [d EXCEPT !.pc = "in_handler", !.idx = @ + 1,
                   !.started = Append(@, handlers[d.idx + 1])]
    ELSE [d EXCEPT !.pc = "done"]

\* _handle_notification begins: the handlers of the event's type are looked
\* up and the first one is called
HandleNotification(e) ==
    /\ dispatches[e].pc = "notified"
    /\ LET handlers == subscribers[dispatches[e].event_type] IN
       dispatches' = [dispatches EXCEPT
                         ![e] = NextHandler([@ EXCEPT !.snapshot = handlers], handlers)]
    /\ UNCHANGED <<bus, subscribers, publishers, dlq_records>>
    /\ UNCHANGED <<coreVars, supervisorVars, assemblerVars, moreVars>>

\* the handler being awaited returns
HandlerReturns(e) ==
    /\ dispatches[e].pc = "in_handler"
    /\ dispatches' = [dispatches EXCEPT
                         ![e] = NextHandler([@ EXCEPT !.finished = Append(@, "returned")],
                                            subscribers[@.event_type])]
    /\ UNCHANGED <<bus, subscribers, publishers, dlq_records>>
    /\ UNCHANGED <<coreVars, supervisorVars, assemblerVars, moreVars>>

\* a raising handler ends the whole dispatch, as if the exception reached
\* the outer handler of _handle_notification
HandlerRaises_EndsDispatch(e) ==
    /\ dispatches[e].pc = "in_handler"
    /\ dispatches' = [dispatches EXCEPT ![e].finished = Append(@, "raised"),
                                        ![e].pc = "done"]
    /\ UNCHANGED <<bus, subscribers, publishers, dlq_records>>
    /\ UNCHANGED <<coreVars, supervisorVars, assemblerVars, moreVars>>

\* the handler being awaited raises: the exception is logged, nothing else,
\* and the loop goes on
HandlerRaises(e) ==
    /\ dispatches[e].pc = "in_handler"
    /\ dispatches' = [dispatches EXCEPT
                         ![e] = NextHandler([@ EXCEPT !.finished = Append(@, "raised")],
                                            subscribers[@.event_type])]
    /\ UNCHANGED <<bus, subscribers, publishers, dlq_records>>
    /\ UNCHANGED <<coreVars, supervisorVars, assemblerVars, moreVars>>

BusNext ==
    \/ \E event_type \in EventTypes, handler \in Handlers : Subscribe(event_type, handler)
    \/ StartListening
    \/ \E e \in EventIds, event_type \in EventTypes, connect_ok \in BOOLEAN :
          PublishCall(e, event_type, connect_ok)
    \/ \E e \in EventIds, notify_ok \in BOOLEAN, db_ok \in BOOLEAN :
          PublishNotify(e, notify_ok, db_ok)
    \/ \E e \in EventIds : HandleNotification(e)
    \/ \E e \in EventIds : HandlerReturns(e)
    \/ \E e \in EventIds : HandlerRaises(e)

(***************************************************************************)
(* MEMORY LAYERS WITH TIME: SessionMemory (Redis keys with a TTL),         *)
(* WorkingMemory.create, LongTermMemory.create and update_access           *)
(***************************************************************************)
ttl_seconds == 2
MaxWall == 5
MaxMessages == 2
MaxRows == 2

ContextValues == {"c0", "c1"}
RowIds == 1..MaxRows

\* Session(session_id=..., user_id=..., messages=[], context=SessionContext())
FreshSession(sid) == [session_id |-> sid, n_messages |-> 0, context |-> "c0"]

IdleCall == [pc |-> "idle", op |-> "none", sid |-> "s1", session |-> None,
             update |-> "c0", wrote |-> FALSE, publish |-> "none",
             sent |-> FALSE, result |-> None, raised |-> FALSE, started_at |-> 0]

\* a client of the table is a process with its own event loop
Clients == {"c1", "c2"}
MaxAccessCalls == 2
IdleClient == [pc |-> "idle", id |-> 1, new_count |-> 0, done |-> [i \in RowIds |-> 0]]

MemoryInit ==
    /\ redis_store = <<>>
    /\ wall = 0
    /\ memory_call = IdleCall
    /\ working_memory = {}
    /\ long_term_memory = <<>>
    /\ access_clients = [c \in Clients |-> IdleClient]

\* a key Redis still has at time t
Alive(store, sid, t) == sid \in DOMAIN store /\ store[sid].expires_at > t

\* redis.get(key)
StoreGet(store, sid, t) == IF Alive(store, sid, t) THEN Some(store[sid].session) ELSE None

\* redis.set(key, value, ex=ttl) and redis.setex(key, ttl, value)
StoreSet(store, sid, session, t) ==
    [k \in DOMAIN store \cup {sid} |->
        IF k = sid THEN [session |-> session, expires_at |-> t + ttl_seconds]
        ELSE store[k]]

\* redis.expire(key, ttl): nothing happens to a key that is gone
StoreExpire(store, sid, t) ==
    IF Alive(store, sid, t)
    THEN [store EXCEPT ![sid].expires_at = t + ttl_seconds]
    ELSE store

\* redis.delete(key)
StoreDelete(store, sid) == [k \in DOMAIN store \ {sid} |-> store[k]]

\* the event types the memory operations name that EventType defines; naming
\* another one raises AttributeError inside the try
DefinedEventTypes == {"create_session", "working_create", "longterm_create"}

\* what the publish of an operation can do
PublishResults(op) ==
    IF op \in DefinedEventTypes THEN {"ok", "failed"} ELSE {"failed"}

\* what the operation returns once its write is done
ReturnValue(call) == IF call.op = "delete_session" THEN None ELSE call.session

\* the publish failure leaves the operation through its caller
AfterPublish_FailureRaises(call, outcome) ==
    IF outcome = "failed"
    THEN [call EXCEPT !.pc = "idle", !.publish = outcome, !.raised = TRUE,
                      !.sent = call.op \in DefinedEventTypes]
    ELSE [call EXCEPT !.pc = "idle", !.publish = outcome, !.result = ReturnValue(call),
                      !.sent = call.op \in DefinedEventTypes]

\* try: await event_bus.publish(...) except Exception: logger.error(...); then
\* the return.  event_bus.publish is called (sent) only if its EventType
\* argument could be evaluated.
AfterPublish(call, outcome) ==
    [call EXCEPT !.pc = "idle", !.publish = outcome, !.result = ReturnValue(call),
                 !.sent = call.op \in DefinedEventTypes]

\* a call begins
Begin(op, sid, pc, t) ==
    [IdleCall EXCEPT !.pc = pc, !.op = op, !.sid = sid, !.started_at = t]

SessionOps == {"get_session", "create_session", "add_message", "update_context",
               "delete_session"}

\* the operation up to get_session's redis.get.  Nothing found: get_session,
\* add_message and update_context return None, create_session goes on to
\* its setex, delete_session to its delete.
SessionOpGet(op, sid, update) ==
    /\ memory_call.pc = "idle"
    /\ op # "update_context" => update = "c0"
    /\ (op = "add_message" /\ Alive(redis_store, sid, wall))
       => redis_store[sid].session.n_messages < MaxMessages
    /\ LET data == StoreGet(redis_store, sid, wall)
           call == [Begin(op, sid, "idle", wall) EXCEPT !.update = update] IN
       memory_call' =
           IF data # None THEN [call EXCEPT !.pc = "expire", !.session = data]
           ELSE IF op = "create_session" THEN [call EXCEPT !.pc = "setex"]
           ELSE IF op = "delete_session" THEN [call EXCEPT !.pc = "delete"]
           ELSE call
    /\ UNCHANGED <<redis_store, wall, working_memory, long_term_memory, access_clients>>
    /\ UNCHANGED <<coreVars, supervisorVars, assemblerVars, busVars, routing, registry, lateVars>>

\* get_session's redis.expire, and what the operation does with the session
\* before its next await
SessionOpExpire ==
    /\ memory_call.pc = "expire"
    /\ redis_store' = StoreExpire(redis_store, memory_call.sid, wall)
    /\ LET s == memory_call.session[1] IN
       memory_call' =
           CASE memory_call.op \in {"get_session", "create_session"} ->
                    [memory_call EXCEPT !.pc = "idle", !.result = memory_call.session]
             [] memory_call.op = "add_message" ->
                    [memory_call EXCEPT !.pc = "save",
                        !.session = Some([s EXCEPT !.n_messages = @ + 1])]
             [] memory_call.op = "update_context" ->
                    [memory_call EXCEPT !.pc = "save",
                        !.session = Some([s EXCEPT !.context = memory_call.update])]
             [] memory_call.op = "delete_session" ->
                    [memory_call EXCEPT !.pc = "delete"]
    /\ UNCHANGED <<wall, working_memory, long_term_memory, access_clients>>
    /\ UNCHANGED <<coreVars, supervisorVars, assemblerVars, busVars, routing, registry, lateVars>>

\* create_session's redis.setex of the new session; the publish comes next
SessionOpSetex ==
    /\ memory_call.pc = "setex"
    /\ redis_store' = StoreSet(redis_store, memory_call.sid,
                               FreshSession(memory_call.sid), wall)
    /\ memory_call' = [memory_call EXCEPT !.pc = "publish", !.wrote = TRUE,
                          !.session = Some(FreshSession(memory_call.sid))]
    /\ UNCHANGED <<wall, working_memory, long_term_memory, access_clients>>
    /\ UNCHANGED <<coreVars, supervisorVars, assemblerVars, busVars, routing, registry, lateVars>>

\* _save_session's redis.set in add_message and update_context; the publish
\* that follows names an undefined EventType member, fails without
\* suspending, and the session is returned
SessionOpSave ==
    /\ memory_call.pc = "save"
    /\ redis_store' = StoreSet(redis_store, memory_call.sid, memory_call.session[1], wall)
    /\ \E outcome \in PublishResults(memory_call.op) :
          memory_call' = AfterPublish([memory_call EXCEPT !.wrote = TRUE], outcome)
    /\ UNCHANGED <<wall, working_memory, long_term_memory, access_clients>>
    /\ UNCHANGED <<coreVars, supervisorVars, assemblerVars, busVars, routing, registry, lateVars>>

\* delete_session's redis.delete; an event is published only for a session
\* that was found
SessionOpDelete ==
    /\ memory_call.pc = "delete"
    /\ redis_store' = StoreDelete(redis_store, memory_call.sid)
    /\ IF memory_call.session # None
       THEN \E outcome \in PublishResults(memory_call.op) :
               memory_call' = AfterPublish([memory_call EXCEPT !.wrote = TRUE], outcome)
       ELSE memory_call' = [memory_call EXCEPT !.pc = "idle", !.wrote = TRUE]
    /\ UNCHANGED <<wall, working_memory, long_term_memory, access_clients>>
    /\ UNCHANGED <<coreVars, supervisorVars, assemblerVars, busVars, routing, registry, lateVars>>

\* WorkingMemory.create and LongTermMemory.create up to the publish: the
\* insert (which raises to the caller when the database fails) and the entry
MemoryCreate(op, insert_ok) ==
    /\ memory_call.pc = "idle"
    /\ op \in {"working_create", "longterm_create"}
    /\ LET rows == IF op = "working_create" THEN working_memory
                   ELSE DOMAIN long_term_memory
           call == Begin(op, "s1", "idle", wall) IN
       /\ rows # RowIds
       /\ LET id == CHOOSE i \in RowIds \ rows : TRUE IN
          IF ~insert_ok
          THEN /\ memory_call' = [call EXCEPT !.raised = TRUE]
               /\ UNCHANGED <<working_memory, long_term_memory>>
          ELSE /\ memory_call' = [call EXCEPT !.pc = "publish", !.wrote = TRUE,
                                     !.session = Some([entry_id |-> id])]
               /\ IF op = "working_create"
                  THEN /\ working_memory' = working_memory \cup {id}
                       /\ UNCHANGED long_term_memory
                  ELSE /\ long_term_memory' =
                             [i \in DOMAIN long_term_memory \cup {id} |->
                                 IF i = id THEN [access_count |-> 0]
                                 ELSE long_term_memory[i]]
                       /\ UNCHANGED working_memory
    /\ UNCHANGED <<redis_store, wall, access_clients>>
    /\ UNCHANGED <<coreVars, supervisorVars, assemblerVars, busVars, routing, registry, lateVars>>

\* the awaited publish of create_session and of the two create methods ends
MemoryPublish(outcome) ==
    /\ memory_call.pc = "publish"
    /\ outcome \in PublishResults(memory_call.op)
    /\ memory_call' = AfterPublish(memory_call, outcome)
    /\ UNCHANGED <<redis_store, wall, working_memory, long_term_memory, access_clients>>
    /\ UNCHANGED <<coreVars, supervisorVars, assemblerVars, busVars, routing, registry, lateVars>>

\* time passes
WallTick ==
    /\ wall < MaxWall
    /\ wall' = wall + 1
    /\ UNCHANGED <<redis_store, memory_call, working_memory, long_term_memory,
                   access_clients>>
    /\ UNCHANGED <<coreVars, supervisorVars, assemblerVars, busVars, routing, registry, lateVars>>

\* update_access: the select of the row's access_count; no row gives 0
UpdateAccessSelect(c, id) ==
    /\ access_clients[c].pc = "idle"
    /\ access_clients[c].done[id] < MaxAccessCalls
    /\ id \in DOMAIN long_term_memory
    /\ access_clients' = [access_clients EXCEPT
                             ![c].pc = "update", ![c].id = id,
                             ![c].new_count = long_term_memory[id].access_count + 1]
    /\ UNCHANGED <<redis_store, wall, memory_call, working_memory, long_term_memory>>
    /\ UNCHANGED <<coreVars, supervisorVars, assemblerVars, busVars, routing, registry, lateVars>>

\* update_access: the update of the row with the count computed from the
\* select, and the return of the entry
UpdateAccessUpdate(c) ==
    /\ access_clients[c].pc = "update"
    /\ long_term_memory' = [long_term_memory EXCEPT
                               ![access_clients[c].id].access_count =
                                   access_clients[c].new_count]
    /\ access_clients' = [access_clients EXCEPT
                             ![c].pc = "idle",
                             ![c].done[access_clients[c].id] = @ + 1]
    /\ UNCHANGED <<redis_store, wall, memory_call, working_memory>>
    /\ UNCHANGED <<coreVars, supervisorVars, assemblerVars, busVars, routing, registry, lateVars>>

AccessNext ==
    \/ \E insert_ok \in BOOLEAN : MemoryCreate("longterm_create", insert_ok)
    \/ \E outcome \in {"ok", "failed"} : MemoryPublish(outcome)
    \/ \E c \in Clients, id \in RowIds : UpdateAccessSelect(c, id)
    \/ \E c \in Clients : UpdateAccessUpdate(c)

MemoryNext ==
    \/ \E op \in SessionOps, sid \in SessionIds, update \in ContextValues :
          SessionOpGet(op, sid, update)
    \/ SessionOpExpire
    \/ SessionOpSetex
    \/ SessionOpSave
    \/ SessionOpDelete
    \/ \E op \in {"working_create", "longterm_create"}, insert_ok \in BOOLEAN :
          MemoryCreate(op, insert_ok)
    \/ \E outcome \in {"ok", "failed"} : MemoryPublish(outcome)
    \/ WallTick

(***************************************************************************)
(* ROUTING OF ONE REQUEST: AgentService.execute_request over providers     *)
(* with model cost tables, AgentService(providers,                         *)
(* enable_circuit_breaker=False).  Money is in millionths of a dollar, so  *)
(* tokens * (dollars per million tokens) is a cost.                        *)
(***************************************************************************)
\* the output-token cap of _estimate_provider_cost
OutputTokenCap == 1000

\* AgentService._providers in registration order
Registered == <<"pa", "pb", "pc", "pd">>

Model(caps, input, output) == [capabilities |-> caps, input |-> input, output |-> output]

\* provider._model_configs; pd has no such attribute
ModelConfigs(p) ==
    CASE p = "pa" -> Some(<<Model({"quality_medium"}, 100, 200)>>)
      [] p = "pb" -> Some(<<Model({"quality_medium"}, 1, 2),
                            Model({"quality_medium", "quality_low"}, 3, 1)>>)
      [] p = "pc" -> Some(<<Model({"quality_high"}, 100, 200),
                            Model({"quality_medium"}, 1, 1)>>)
      [] OTHER -> None

\* the keyword arguments callers give AgentRequest(...)
RequestArgs ==
    [prompt_len : {33, 4000}, max_tokens : {500, 4096},
     quality_tier : {"low", "medium", "high"},
     max_cost : {None, Some(100), Some(2008), Some(100000)},
     preferred : {None, Some("pa"), Some("pc"), Some("zz")},
     caps : {{}, {"code_generation"}, {"quantum_computing"}},
     conversation_history : {<<>>, <<"user_message">>},
     enable_memory : BOOLEAN, user_id : {Some("u1")}, memory_max_tokens : {2000}]

\* AgentRequest(**args): the model declares no enable_memory, user_id,
\* session_id or memory_max_tokens, and pydantic drops undeclared arguments
AgentRequest(args) ==
    [prompt_len |-> args.prompt_len, max_tokens |-> args.max_tokens,
     quality_tier |-> args.quality_tier, max_cost |-> args.max_cost,
     preferred |-> args.preferred, caps |-> args.caps,
     conversation_history |-> args.conversation_history]

Minimum(S) == CHOOSE x \in S : \A y \in S : x <= y

\* _estimate_provider_cost: None without _model_configs or without a model
\* of the requested tier, else the cost at the cheapest such model
EstimateProviderCost(p, req) ==
    IF ModelConfigs(p) = None THEN None
    ELSE LET configs == ModelConfigs(p)[1]
             estimated_input_tokens == req.prompt_len \div 4
             estimated_output_tokens == IF req.max_tokens <= OutputTokenCap
                                        THEN req.max_tokens ELSE OutputTokenCap
             target_quality_cap == "quality_" \o req.quality_tier
             costs == {estimated_input_tokens * configs[i].input
                       + estimated_output_tokens * configs[i].output :
                         i \in {k \in 1..Len(configs) :
                                   target_quality_cap \in configs[k].capabilities}}
         IN IF costs = {} THEN None ELSE Some(Minimum(costs))

\* the preferred provider first and every other provider after it
RoutePreferred_OthersAsFallback(req) ==
    IF req.preferred # None
    THEN SelectSeq(Registered, LAMBDA p : p = req.preferred[1])
         \o SelectSeq(Registered, LAMBDA p : p # req.preferred[1])
    ELSE Registered

\* step 1: preferred_provider
RoutePreferred(req) ==
    IF req.preferred # None
    THEN SelectSeq(Registered, LAMBDA p : p = req.preferred[1])
    ELSE Registered

\* step 3: max_cost_usd
ByCost(req, cands) ==
    IF req.max_cost # None
    THEN SelectSeq(cands, LAMBDA p :
             /\ EstimateProviderCost(p, req) # None
             /\ EstimateProviderCost(p, req)[1] <= req.max_cost[1])
    ELSE cands

IdleRouting ==
    [pc |-> "pending", args |-> <<>>, req |-> <<>>, cands |-> <<>>, idx |-> 0,
     called |-> <<>>, received |-> <<>>, last_error |-> None, returned |-> None]

\* no request
RoutingInit == routing = IdleRouting

\* one request is about to be made
RoutingInputs ==
    routing \in {[IdleRouting EXCEPT !.args = a, !.req = AgentRequest(a)] : a \in RequestArgs}

\* provider.execute(request) is called: the provider receives the request
CallProvider(rt, i) ==
    [rt EXCEPT !.pc = "exec", !.idx = i, !.called = Append(@, rt.cands[i]),
               !.received = Append(@, rt.req)]

\* the loop of step 5 at candidate i: call it, or, with none left, return
\* the error response that carries last_error
NextCandidate(rt, i) ==
    IF i > Len(rt.cands)
    THEN [rt EXCEPT !.pc = "done",
                    !.returned = Some(CreateErrorResponse(<<"all_failed", rt.last_error>>))]
    ELSE CallProvider(rt, i)

\* execute_request from its start to the first provider.execute or return
RouteRequest ==
    /\ routing.pc = "pending"
    /\ routing.req # <<>>
    /\ LET req == routing.req
           preferred == RoutePreferred(req)
           capable == ByCapabilities(req, preferred)
           affordable == ByCost(req, capable)
           cands == SortDesc(affordable)
           Fail(msg) == [routing EXCEPT !.pc = "done",
                                        !.returned = Some(CreateErrorResponse(<<msg, None>>))]
       IN routing' =
              IF preferred = <<>> THEN Fail("no_providers")
              ELSE IF capable = <<>> THEN Fail("no_capabilities")
              ELSE IF affordable = <<>> THEN Fail("no_budget")
              ELSE NextCandidate([routing EXCEPT !.cands = cands], 1)
    /\ UNCHANGED <<coreVars, supervisorVars, assemblerVars, busVars, memoryVars, registry, lateVars>>

\* provider.execute returns or raises and the loop body ends: a response
\* without error is returned unless a metric emission raises; an emission
\* that raises in the except handler leaves execute_request
ProviderAnswers(o) ==
    /\ routing.pc = "exec"
    /\ LET p == routing.cands[routing.idx] IN
       routing' =
           IF o.provider = "ok" /\ o.emit = "ok"
           THEN [routing EXCEPT !.pc = "done",
                                !.returned = Some([provider_used |-> p, error |-> None])]
           ELSE IF o.handler_emit = "raise"
           THEN [routing EXCEPT !.pc = "done",
                                !.returned = Some([provider_used |-> "raised",
                                                   error |-> Some(<<p, "raised">>)])]
           ELSE NextCandidate([routing EXCEPT !.last_error = Some(<<p, "failed">>)],
                              routing.idx + 1)
    /\ UNCHANGED <<coreVars, supervisorVars, assemblerVars, busVars, memoryVars, registry, lateVars>>

RoutingNext ==
    \/ RouteRequest
    \/ \E o \in Outcomes : ProviderAnswers(o)

(***************************************************************************)
(* REGISTRY: CircuitBreakerRegistry as an object                           *)
(***************************************************************************)
\* the places of the application that hold a registry
Handles == {"h1", "h2"}

\* registry.instance : the class attribute _instance, None or the object's index
\* registry.objects  : the CircuitBreakerRegistry objects allocated so far
\* registry.handles  : per holder, the object its constructor call returned
\* registry.created  : history: the number of CircuitBreaker objects created
\* registry.last     : history: the last call and what it returned
RegistryInit ==
    registry = [instance |-> None,
                objects |-> <<>>,
                handles |-> [h \in Handles |-> None],
                created |-> 0,
                last |-> [op |-> "none", handle |-> "none", name |-> "none", ret |-> None]]

\* CircuitBreakerRegistry.__new__
RegistryNew(reg) ==
    IF reg.instance = None
    THEN [reg EXCEPT !.objects = Append(@, [initialized |-> FALSE, breakers |-> <<>>]),
                     !.instance = Some(Len(reg.objects) + 1)]
    ELSE reg

\* __init__ without the _initialized guard: every construction starts over
RegistryInitialise_EveryTime(reg, id) ==
    [reg EXCEPT !.objects[id] = [initialized |-> TRUE, breakers |-> <<>>]]

\* CircuitBreakerRegistry.__init__
RegistryInitialise(reg, id) ==
    IF reg.objects[id].initialized
    THEN reg
    ELSE [reg EXCEPT !.objects[id] = [initialized |-> TRUE, breakers |-> <<>>]]

\* CircuitBreakerRegistry.get_circuit_breaker on object id: the registry after
\* the lookup; a breaker is an object, identified by its serial
RegistryLookup(reg, id, name, h) ==
    LET breakers == reg.objects[id].breakers IN
    IF name \in DOMAIN breakers
    THEN reg
    ELSE [reg EXCEPT
            !.objects[id].breakers =
                [n \in (DOMAIN breakers) \cup {name} |->
                    IF n = name
                    THEN [serial |-> reg.created + 1, created_by |-> h, b |-> NewBreaker]
                    ELSE breakers[n]],
            !.created = @ + 1]

\* h = CircuitBreakerRegistry(), also through get_circuit_breaker_registry()
GetCircuitBreakerRegistry(h) ==
    LET made == RegistryNew(registry)
        id == made.instance[1]
        reg == RegistryInitialise(made, id) IN
    /\ registry' = [reg EXCEPT !.handles[h] = Some(id),
                               !.last = [op |-> "registry", handle |-> h,
                                         name |-> "none", ret |-> Some(id)]]
    /\ UNCHANGED <<coreVars, supervisorVars, assemblerVars, busVars, memoryVars, routing, lateVars>>

\* h.get_circuit_breaker(name)
HandleGetCircuitBreaker(h, name) ==
    /\ registry.handles[h] # None
    /\ LET id == registry.handles[h][1]
           reg == RegistryLookup(registry, id, name, h) IN
       registry' = [reg EXCEPT !.last = [op |-> "get_circuit_breaker", handle |-> h,
                                         name |-> name,
                                         ret |-> Some(reg.objects[id].breakers[name].serial)]]
    /\ UNCHANGED <<coreVars, supervisorVars, assemblerVars, busVars, memoryVars, routing, lateVars>>

\* h.get_circuit_breaker(name).record_success()
HandleRecordSuccess(h, name) ==
    /\ registry.handles[h] # None
    /\ LET id == registry.handles[h][1]
           reg == RegistryLookup(registry, id, name, h) IN
       registry' = [reg EXCEPT !.objects[id].breakers[name].b = RecordSuccess(@),
                               !.last = [op |-> "record_success", handle |-> h,
                                         name |-> name, ret |-> None]]
    /\ UNCHANGED <<coreVars, supervisorVars, assemblerVars, busVars, memoryVars, routing, lateVars>>

\* h.get_circuit_breaker(name).record_failure()
HandleRecordFailure(h, name) ==
    /\ registry.handles[h] # None
    /\ LET id == registry.handles[h][1]
           reg == RegistryLookup(registry, id, name, h) IN
       /\ reg.objects[id].breakers[name].b.failure_count < MaxFailureCount
       /\ registry' = [reg EXCEPT !.objects[id].breakers[name].b = RecordFailure(@, now),
                                  !.last = [op |-> "record_failure", handle |-> h,
                                            name |-> name, ret |-> None]]
    /\ UNCHANGED <<coreVars, supervisorVars, assemblerVars, busVars, memoryVars, routing, lateVars>>

RegistryNext ==
    \/ \E h \in Handles : GetCircuitBreakerRegistry(h)
    \/ \E h \in Handles, name \in ProviderNames : HandleGetCircuitBreaker(h, name)
    \/ \E h \in Handles, name \in ProviderNames : HandleRecordSuccess(h, name)
    \/ \E h \in Handles, name \in ProviderNames : HandleRecordFailure(h, name)


(***************************************************************************)
(* FETCH: ResilientContextAssembler.assemble_context over the working      *)
(* layer, the one layer whose fetch can answer, with the @retry of         *)
(* assemble_context and the @postgres_breaker of _get_working_memory.      *)
(***************************************************************************)
\* @retry(stop=stop_after_attempt(3), ...)
stop_after_attempt == 3
\* postgres_breaker = CircuitBreaker(fail_max=5, ...)
fail_max == 5
MaxFetchCalls == 6

\* what the store does when asked
StoreAnswers == {"ok", "ConnectionError", "TimeoutError"}
\* what the store would do at the first, second and third time of asking
AttemptPlans == [1..stop_after_attempt -> StoreAnswers]
\* what the breaker adds to its fail_counter for a decorated coroutine that
\* raises when awaited: 0 if its wrapper only sees the coroutine object
\* returned, 1 if it awaits it
Counted == {0, 1}

\* fetch.state, fetch.fail_counter : postgres_breaker
\* fetch.calls    : history: the assemble_context calls made
\* fetch.plan, fetch.attempts, fetch.before, fetch.layer, fetch.outcome :
\*                  history of the last call: what the store would do, how often
\*                  it was asked, the breaker before, what the layer gave
FetchInit ==
    fetch = [state |-> "closed", fail_counter |-> 0, calls |-> 0,
             plan |-> <<>>, attempts |-> 0,
             before |-> [state |-> "closed", fail_counter |-> 0],
             layer |-> "none", outcome |-> "none"]

\* retry=retry_if_exception_type((ConnectionError, TimeoutError)) with
\* stop_after_attempt: is the call made once more
ShouldRetry(outcome, attempt) ==
    /\ outcome \in {"ConnectionError", "TimeoutError"}
    /\ attempt < stop_after_attempt

\* _get_working_memory behind @postgres_breaker, then _assemble_full_context
\* and the try of assemble_context: one pass of the body of assemble_context.
\* Every exception of the fetch becomes MemoryServiceError, which
\* _assemble_full_context turns into status degraded; the body returns.
AssemblePass(f, answer, counted) ==
    IF f.state = "open"
    THEN [f EXCEPT !.layer = "CircuitBreakerError", !.outcome = "returned_degraded"]
    ELSE IF answer = "ok"
    THEN [f EXCEPT !.attempts = @ + 1, !.state = "closed", !.fail_counter = 0,
                   !.layer = "fetched", !.outcome = "returned_healthy"]
    ELSE LET failures == f.fail_counter + counted
             opens == counted = 1 /\ (f.state = "half_open" \/ failures >= fail_max) IN
         [f EXCEPT !.attempts = @ + 1, !.fail_counter = failures,
                   !.state = IF opens THEN "open" ELSE @,
                   !.layer = "MemoryServiceError", !.outcome = "returned_degraded"]

RECURSIVE RetryingAssemble(_, _, _, _)
\* assemble_context under @retry: the body is run again while it raises a
\* connection or timeout error and attempts remain
RetryingAssemble(f, plan, counted, attempt) ==
    LET pass == AssemblePass(f, plan[attempt], counted) IN
    IF ShouldRetry(pass.outcome, attempt)
    THEN RetryingAssemble(pass, plan, counted, attempt + 1)
    ELSE pass

\* a caller awaits assemble_context
FetchAssemble(plan, counted) ==
    /\ fetch.calls < MaxFetchCalls
    /\ fetch' = RetryingAssemble(
                    [fetch EXCEPT !.calls = @ + 1, !.plan = plan, !.attempts = 0,
                                  !.before = [state |-> fetch.state,
                                              fail_counter |-> fetch.fail_counter]],
                    plan, counted, 1)
    /\ UNCHANGED <<coreVars, supervisorVars, assemblerVars, busVars, memoryVars,
                   routing, registry>>

\* reset_timeout elapses on the open breaker
FetchResetTimeout ==
    /\ fetch.state = "open"
    /\ fetch' = [fetch EXCEPT !.state = "half_open"]
    /\ UNCHANGED <<coreVars, supervisorVars, assemblerVars, busVars, memoryVars,
                   routing, registry>>

FetchNext ==
    \/ \E plan \in AttemptPlans, counted \in Counted : FetchAssemble(plan, counted)
    \/ FetchResetTimeout

(***************************************************************************)
(* SPECIFICATIONS                                                          *)
(***************************************************************************)
\* the components outside the core
LateInit == FetchInit
MoreInit == MemoryInit /\ RoutingInit /\ RegistryInit /\ LateInit
ExtInit == SupervisorInit /\ AssemblerInit /\ BusInit /\ MoreInit

\* the service with its default configuration (circuit breaker enabled)
Init == SessionInit /\ BreakerInit /\ RouterInit({TRUE}) /\ DlqInit /\ ExtInit
\* the service with either configuration
InitAnyService == SessionInit /\ BreakerInit /\ RouterInit(BOOLEAN) /\ DlqInit /\ ExtInit

SessionSpec == Init /\ [][SessionNext]_vars
BreakerSpec == Init /\ [][BreakerNext]_vars
RouterSpec == InitAnyService /\ [][RouterNext]_vars
DlqSpec == Init /\ [][DlqNext]_vars
SupervisorSpec == Init /\ [][SupervisorNext]_vars
AssemblerSpecInit ==
    SessionInit /\ BreakerInit /\ RouterInit({TRUE}) /\ DlqInit /\ SupervisorInit
    /\ AssemblerInputs /\ BusInit /\ MoreInit
AssemblerSpec == AssemblerSpecInit /\ [][AssemblerNext]_vars
ResilientSpec == Init /\ [][ResilientNext]_vars
BusSpec == Init /\ [][BusNext]_vars
MemorySpec == Init /\ [][MemoryNext]_vars
AccessSpec == Init /\ [][AccessNext]_vars
RoutingSpecInit ==
    SessionInit /\ BreakerInit /\ RouterInit({FALSE}) /\ DlqInit /\ SupervisorInit
    /\ AssemblerInit /\ BusInit /\ MemoryInit /\ RoutingInputs /\ RegistryInit /\ LateInit
RoutingSpec == RoutingSpecInit /\ [][RoutingNext]_vars
RegistrySpec == Init /\ [][RegistryNext]_vars
FetchSpec == Init /\ [][FetchNext]_vars

(***************************************************************************)
(* PROPERTIES                                                              *)
(***************************************************************************)

\* the breaker of `name` as the registry has it (a fresh one if not yet created)
BreakerOf(reg, name) == GetCircuitBreaker(reg, name)[name]

\* C1: after any add_message calls on an existing session, overlapping ones
\* included, the stored message log is exactly the submitted messages, each
\* once, in the order in which their writes were serialized.
C1_LogIsTheSerializedMessages ==
    \A sid \in DOMAIN redis :
        (\A t \in Tasks : tasks[t].pc \notin {"am_expire", "am_save"})
            => redis[sid].messages = serialized[sid]

\* C2: execute_request stops at the first candidate that returns a response
\* without error: once a provider has returned one, the request has returned,
\* and what it returned is that response.
C2_StopsAtFirstSuccess ==
    \A r \in Slots :
        requests[r].seen_ok =>
            /\ requests[r].pc = "done"
            /\ requests[r].returned # None
            /\ requests[r].returned[1].error = None

\* a provider is refused by its breaker: open, timeout not yet elapsed since it opened
Blocked(p) ==
    /\ enable_circuit_breaker
    /\ p \in DOMAIN circuit_breakers
    /\ circuit_breakers[p].state = "open"
    /\ now - circuit_breakers[p].opened_at[1] < timeout_seconds

\* a provider's breaker is in use and open
IsOpen(p) ==
    /\ enable_circuit_breaker
    /\ p \in DOMAIN circuit_breakers
    /\ circuit_breakers[p].state = "open"

\* this step starts a provider.execute call of request r
CallStarts(r) ==
    /\ requests'[r].pc = "exec"
    /\ requests[r].pc # "exec" \/ requests[r].idx # requests'[r].idx

\* the candidate index from which this step of request r runs the loop
LoopFrom(r) == IF requests[r].pc = "exec" THEN requests[r].idx + 1 ELSE 1

\* C3: a breaker that is closed has counted fewer than failure_threshold
\* failures (failure_threshold consecutive failures leave it open); while a
\* provider's breaker is open and its timeout has not elapsed no execute call
\* on it is started, and a request that reaches it passes over it and calls
\* the next candidate that is not refused; only candidates with an open
\* breaker are passed over.
C3_ClosedBelowThreshold ==
    \A p \in DOMAIN circuit_breakers :
        circuit_breakers[p].state = "closed"
            => circuit_breakers[p].failure_count < failure_threshold

C3_OpenProviderSkipped ==
    \A r \in Slots :
        CallStarts(r) =>
            /\ ~Blocked(requests'[r].cands[requests'[r].idx])
            /\ \A k \in LoopFrom(r)..(requests'[r].idx - 1) :
                   IsOpen(requests'[r].cands[k])

C3_OpenBreakerSkipsProvider ==
    [](C3_ClosedBelowThreshold) /\ [][C3_OpenProviderSkipped]_vars

\* C3 witness: p2's breaker is open within its timeout and a request for both
\* providers has passed over p2 and is calling p1
C3_Witness ==
    /\ Blocked("p2")
    /\ \E r \in Slots :
          /\ requests[r].pc = "exec"
          /\ requests[r].cands = <<"p2", "p1">>
          /\ requests[r].idx = 2
          /\ requests[r].last_error = Some(<<"p2", "circuit_open">>)

\* C4: every record_failure raises failure_count by one; record_success on a
\* closed breaker leaves it closed with failure_count zero; a closed breaker
\* has failure_count below failure_threshold and a record_failure opens it
\* exactly when the count reaches failure_threshold.
C4_Step ==
    \A n \in ProviderNames :
        LET b == BreakerOf(circuit_breakers, n)
            c == BreakerOf(circuit_breakers', n) IN
        /\ b.state = "closed" => b.failure_count < failure_threshold
        /\ ApiRecordFailure(n) =>
              /\ c.failure_count = b.failure_count + 1
              /\ b.state = "closed" =>
                    /\ c.state \in {"closed", "open"}
                    /\ c.state = "open"
                          <=> b.failure_count + 1 = failure_threshold
        /\ ApiRecordSuccess(n) /\ b.state = "closed" =>
              /\ c.state = "closed"
              /\ c.failure_count = 0
        /\ b.state = "closed" /\ c.state # "closed" =>
              ApiRecordFailure(n)

C4_ClosedCountsConsecutiveFailures == [][C4_Step]_vars

\* C4 witness: a breaker just opened by the failure_threshold-th failure in a row
C4_Witness ==
    /\ last_call.op = "record_failure"
    /\ "p1" \in DOMAIN circuit_breakers
    /\ last_call.name = "p1"
    /\ circuit_breakers["p1"].state = "open"
    /\ circuit_breakers["p1"].failure_count = failure_threshold
    /\ circuit_breakers["p1"].opened_at = Some(now)

\* C5: is_request_allowed on an open breaker returns false and leaves it open
\* while less than timeout_seconds has elapsed since it opened, and moves it to
\* half-open and returns true once timeout_seconds has elapsed since it opened.
C5_Step ==
    \A n \in DOMAIN circuit_breakers :
        LET b == circuit_breakers[n] IN
        (b.state = "open" /\ ApiIsRequestAllowed(n)) =>
            IF now - b.opened_at[1] < timeout_seconds
            THEN /\ last_call'.ret = Some(FALSE)
                 /\ circuit_breakers'[n].state = "open"
            ELSE /\ last_call'.ret = Some(TRUE)
                 /\ circuit_breakers'[n].state = "half_open"

C5_OpenUntilTimeoutSinceOpened == [][C5_Step]_vars

\* C6: record_failure on a half-open breaker, whatever its success_count,
\* leaves it open with the timeout running from now: requests are refused
\* until now + timeout_seconds and admitted from then on.
C6_Step ==
    \A n \in DOMAIN circuit_breakers :
        LET b == circuit_breakers[n] IN
        (b.state = "half_open" /\ ApiRecordFailure(n)) =>
            LET c == circuit_breakers'[n] IN
            /\ c.state = "open"
            /\ c.opened_at = Some(now)
            /\ c.last_failure_time = Some(now)
            /\ \A d \in 0..(timeout_seconds - 1) : ~IsRequestAllowed(c, now + d)
            /\ IsRequestAllowed(c, now + timeout_seconds)

C7_Step ==
    \A n \in DOMAIN circuit_breakers :
        LET b == circuit_breakers[n]
            c == circuit_breakers'[n] IN
        /\ b.state = "half_open" => b.success_count < success_threshold
        /\ b.state # "half_open" /\ c.state = "half_open" => c.success_count = 0
        /\ (b.state = "half_open" /\ ApiRecordSuccess(n)) =>
              IF b.success_count + 1 < success_threshold
              THEN c.state = "half_open" /\ c.success_count = b.success_count + 1
              ELSE c.state = "closed" /\ c.failure_count = 0 /\ c.success_count = 0
        /\ (b.state = "half_open" /\ c.state = "closed") => ApiRecordSuccess(n)
        /\ (b.state = "half_open" /\ c.state = "half_open"
              /\ c.success_count # b.success_count) => ApiRecordSuccess(n)

FailedAttempt(id) ==
    \/ MarkRetryAttemptCall(id, FALSE, TRUE)
    \/ \E outcome \in PublishOutcomes \ {"ok"} : WorkerRetryEvent(id, outcome, TRUE)

\* some get_pending_retries call, made now, when some row falls due or at the
\* end of time, could return row id (the query's time test is monotone)
EverReturned(id) ==
    \E t \in {clock, MaxClock} \cup DueTimes(event_failures), db_ok \in BOOLEAN :
        \E pending \in GetPendingRetries(event_failures, t, PendingLimit, db_ok) :
            id \in pending

\* C8: the third failed retry attempt on a row leaves it with status failed,
\* retry_count 3 and next_retry_at null; a row with three failed attempts is
\* not pending, no get_pending_retries call returns it, and no retry-worker
\* pass fetches it.
C8_CappedNeverReturned ==
    \A id \in DOMAIN event_failures :
        event_failures[id].retry_count >= 3 =>
            /\ event_failures[id].status # "pending"
            /\ ~EverReturned(id)

C8_Step ==
    \A id \in DOMAIN event_failures :
        /\ (event_failures[id].retry_count = 2 /\ FailedAttempt(id)) =>
              /\ event_failures'[id].status = "failed"
              /\ event_failures'[id].retry_count = 3
              /\ event_failures'[id].next_retry_at = None
        /\ (event_failures[id].retry_count >= 3 /\ worker.pc = "idle") =>
              id \notin worker'.pending

C8_ThirdFailureIsTerminal == [](C8_CappedNeverReturned) /\ [][C8_Step]_vars

\* C8 witness: a row failed for good by a third attempt made when it was due
C8_Witness ==
    \E id \in DOMAIN event_failures :
        /\ event_failures[id].status = "failed"
        /\ event_failures[id].retry_count = 3
        /\ event_failures[id].next_retry_at = None
        /\ clock >= 155

\* C9: record_failure inserts a pending row with retry_count 0 and
\* next_retry_at 5 minutes later; a failed attempt on a pending row with
\* retry_count 0 leaves it pending with retry_count 1 and next_retry_at 30
\* minutes later, and one with retry_count 1 leaves it pending with
\* retry_count 2 and next_retry_at 120 minutes later.
C9_Step ==
    /\ RecordFailureCall(TRUE) =>
          LET row == event_failures'[NextId(event_failures)] IN
          /\ row.status = "pending"
          /\ row.retry_count = 0
          /\ row.next_retry_at = Some(clock + 5)
    /\ \A id \in DOMAIN event_failures :
          (event_failures[id].status = "pending" /\ FailedAttempt(id)) =>
              /\ event_failures[id].retry_count = 0 =>
                    /\ event_failures'[id].status = "pending"
                    /\ event_failures'[id].retry_count = 1
                    /\ event_failures'[id].next_retry_at = Some(clock + 30)
              /\ event_failures[id].retry_count = 1 =>
                    /\ event_failures'[id].status = "pending"
                    /\ event_failures'[id].retry_count = 2
                    /\ event_failures'[id].next_retry_at = Some(clock + 120)

C9_BackoffSchedule == [][C9_Step]_vars

\* C9 witness: a pending row after its second failed attempt, made when due
C9_Witness ==
    \E id \in DOMAIN event_failures :
        /\ event_failures[id].status = "pending"
        /\ event_failures[id].retry_count = 2
        /\ event_failures[id].next_retry_at = Some(clock + 120)
        /\ clock >= 35

\* C10: a row that is resolved or failed keeps its status, retry_count and
\* next_retry_at in every step for as long as it exists, whatever
\* mark_retry_attempt calls are made on it.
C10_Step ==
    \A id \in DOMAIN event_failures \cap DOMAIN event_failures' :
        event_failures[id].status \in {"resolved", "failed"} =>
            /\ event_failures'[id].status = event_failures[id].status
            /\ event_failures'[id].retry_count = event_failures[id].retry_count
            /\ event_failures'[id].next_retry_at = event_failures[id].next_retry_at

C10_TerminalRowsNeverChange == [][C10_Step]_vars

\* C11: a worker whose run() raised is waiting the supervisor's backoff sleep
\* (health "crashed") before it is run again, never any other wait.
C11_RaisedRunWaitsBackoff ==
    \A w \in WorkerNames :
        (supervised[w].last_run = "raised"
            /\ supervised[w].pc \in {"interval_sleep", "backoff_sleep"}) =>
            /\ supervised[w].pc = "backoff_sleep"
            /\ supervised[w].status = "crashed"

\* C12: once WorkerSupervisor.stop() has returned, every supervision task has
\* finished.
C12_StopLeavesNoTask ==
    supervisor.stopped => \A w \in WorkerNames : supervised[w].pc = "done"

\* the last assembly call returned a context
Assembled(op) ==
    /\ assembled.op = op
    /\ assembled.result.outcome = "returned"

C14_SessionAlwaysWhole ==
    /\ (assembled.op = "assemble_context" /\ assembled.session # None
        /\ assembled.result # Pending)
       => /\ assembled.result.outcome = "returned"
          /\ assembled.result.context.session = assembled.session
          /\ assembled.session[1].tokens > assembled.max_tokens
             => /\ assembled.result.context.facts = <<>>
                /\ assembled.result.context.recent = <<>>
    /\ (Assembled("_build_context") /\ assembled.session_msgs # <<>>)
       => /\ assembled.result.context.messages = assembled.session_msgs
          /\ SumSeq(assembled.session_msgs) > assembled.max_tokens
             => assembled.result.context.facts = <<>>

\* the last step was a call of ResilientContextAssembler.assemble_context
\* under these layer conditions
ResilientCalled(failing) ==
    /\ assembled'.op = "resilient"
    /\ {l \in {"session", "working", "longterm"} : assembled'.conditions[l] # "ok"}
       = failing

\* C15: when the session, working and long-term fetches all fail, the result
\* is the context cached for the key with status cached, or, nothing being
\* cached for the key, an empty context with status no_cache or error.
C15_AllFailedGivesCached ==
    [][ResilientCalled({"session", "working", "longterm"})
       => LET key == assembled'.key
              got == assembled'.result.context IN
          IF HasKey(context_cache, key)
          THEN got = [context_cache[key] EXCEPT !.status = "cached"]
          ELSE got \in {EmptyContext("no_cache"), EmptyContext("error")}]_vars

\* C16: with some but not all layers failing the status is degraded, the
\* failed layers add nothing and every layer that answered adds its items
\* within the budget; with no layer failing the status is healthy.
C16_PartialFailureDegrades ==
    assembled.op = "resilient"
    => LET failed == {l \in {"session", "working", "longterm"} :
                         assembled.conditions[l] # "ok"}
           got == assembled.result.context
           working_facts == {i \in 1..Len(got.facts) : got.facts[i].layer = "working"}
           longterm_facts == {i \in 1..Len(got.facts) : got.facts[i].layer = "longterm"} IN
       /\ failed = {} => got.status = "healthy"
       /\ (failed # {} /\ failed # {"session", "working", "longterm"})
          => got.status = "degraded"
       /\ failed # {"session", "working", "longterm"}
          => /\ got.total_tokens <= assembled.max_tokens
             /\ "session" \in failed => got.messages = <<>>
             /\ "working" \in failed => working_facts = {}
             /\ "longterm" \in failed => longterm_facts = {}
             /\ ("session" \notin failed
                 /\ Head(assembled.session_msgs) < assembled.max_tokens)
                => got.messages # <<>>
             /\ ("longterm" \notin failed
                 /\ SumSeq(got.messages) + Head(assembled.longterm) < assembled.max_tokens)
                => longterm_facts # {}

\* the DLQ rows written for event e
RecordsOf(e) == {i \in 1..Len(dlq_records) : dlq_records[i].event_id = e}

\* C17: a publish that raised to its caller has before that written the DLQ
\* record of its event (same id, type, payload and user), unless the DLQ
\* write itself failed; the error raised is the publish error.
C17_FailedPublishRecordedFirst ==
    \A e \in EventIds :
        publishers[e].pc = "raised"
        => /\ publishers[e].error \in {"connect", "notify"}
           /\ \/ publishers[e].dlq_failed
              \/ \E i \in RecordsOf(e) :
                    /\ dlq_records[i].payload = PayloadOf(e)
                    /\ dlq_records[i].user_id = UserOf(e)
                    /\ publishers[e].event # None
                       => dlq_records[i] = publishers[e].event[1]

\* C18: in a dispatch every handler subscribed to the event's type when the
\* dispatch began is called, in order, each one only after the one before
\* it has returned or raised; a handler that raises is followed by the call
\* of the next one, and the dispatch ends only after all of them finished.
C18_Dispatched(e) ==
    LET d == dispatches[e] IN
    /\ d.pc = "in_handler"
       => /\ Len(d.finished) = Len(d.started) - 1
          /\ \A i \in 1..Len(d.started) :
                i <= Len(d.snapshot) => d.started[i] = d.snapshot[i]
    /\ d.pc = "done"
       => /\ Len(d.started) >= Len(d.snapshot)
          /\ Len(d.finished) = Len(d.started)
          /\ \A i \in 1..Len(d.snapshot) : d.started[i] = d.snapshot[i]

C18_Step ==
    \A e \in EventIds :
        (HandlerRaises(e) /\ dispatches[e].idx < Len(dispatches[e].snapshot))
        => /\ dispatches'[e].pc = "in_handler"
           /\ dispatches'[e].started =
                 Append(dispatches[e].started,
                        dispatches[e].snapshot[dispatches[e].idx + 1])

C18_RaisingHandlerStarvesNoSibling ==
    /\ [](\A e \in EventIds : C18_Dispatched(e))
    /\ [][C18_Step]_vars

\* a dispatch over two handlers has ended; the first handler raised and the
\* second was called after it and returned
C18_Witness ==
    \E e \in EventIds :
        /\ dispatches[e].pc = "done"
        /\ Len(dispatches[e].snapshot) = 2
        /\ dispatches[e].finished = <<"raised", "returned">>

\* C19: every handler failure of a dispatch has exactly one DLQ record, and
\* handlers that return have none.
C19_OneRecordPerHandlerFailure ==
    \A e \in EventIds :
        dispatches[e].pc # "none"
        => Cardinality(RecordsOf(e))
           = Cardinality({i \in 1..Len(dispatches[e].finished) :
                             dispatches[e].finished[i] = "raised"})

\* C20: the handlers of one event run concurrently: while a handler has not
\* returned, every other handler subscribed when the dispatch began has
\* been started all the same.
C20_HandlersStartTogether ==
    \A e \in EventIds :
        dispatches[e].pc = "in_handler"
        => Len(dispatches[e].started) >= Len(dispatches[e].snapshot)

\* C21: create_session, add_message, update_context, delete_session,
\* WorkingMemory.create and LongTermMemory.create whose event publication
\* failed have applied their store write and returned their result
\* normally: the publish failure is not raised to the caller.
C21_PublishFailureNeverRaised ==
    (memory_call.pc = "idle" /\ memory_call.publish = "failed")
    => /\ ~memory_call.raised
       /\ memory_call.wrote
       /\ memory_call.result = ReturnValue(memory_call)

\* a create_session, and a WorkingMemory.create, wrote and returned although
\* the publish failed (two states, one per kind of store)
C21_Witness ==
    /\ memory_call.pc = "idle"
    /\ memory_call.publish = "failed"
    /\ memory_call.op \in {"create_session", "longterm_create"}
    /\ memory_call.result # None
    /\ memory_call.op = "longterm_create" => long_term_memory # <<>>
    /\ memory_call.op = "create_session" => "s1" \in DOMAIN redis_store

\* C22: a get_session, add_message or update_context that returned the
\* session has restarted its full TTL: the session is still in Redis until
\* a full ttl_seconds has passed since that call began.
C22_AccessRestartsFullTtl ==
    (/\ memory_call.pc = "idle"
     /\ memory_call.op \in {"get_session", "add_message", "update_context"}
     /\ memory_call.result # None
     /\ wall < memory_call.started_at + ttl_seconds)
    => Alive(redis_store, memory_call.sid, wall)

\* the update_access calls completed on entry id
CompletedAccesses(id) ==
    LET RECURSIVE Sum(_)
        Sum(S) == IF S = {} THEN 0
                  ELSE LET c == CHOOSE x \in S : TRUE IN
                       access_clients[c].done[id] + Sum(S \ {c}) IN
    Sum(Clients)

\* C23: with no update_access in progress, the access_count of an entry is
\* the number of update_access calls completed on it, overlapping calls
\* included.
C23_EachCallAddsOne ==
    (\A c \in Clients : access_clients[c].pc = "idle")
    => \A id \in DOMAIN long_term_memory :
          long_term_memory[id].access_count = CompletedAccesses(id)

\* C24: for a request made with enable_memory and a user id, every provider
\* called receives a conversation history that begins with the system
\* message summarising the assembled context, before the caller's own
\* messages, and the caller's request keeps its history.
C24_MemoryContextPrepended ==
    (routing.args # <<>> /\ routing.args.enable_memory /\ routing.args.user_id # None)
    => /\ routing.req.conversation_history = routing.args.conversation_history
       /\ \A i \in 1..Len(routing.received) :
             LET history == routing.received[i].conversation_history IN
             /\ history # <<>>
             /\ Head(history) = "system_context"
             /\ Tail(history) = routing.args.conversation_history

\* the same provider outcome with every metric emission going through
Quiet(o) == [o EXCEPT !.emit = "ok", !.handler_emit = "ok"]

\* C25: a metric emission that raises does not change what the request does
\* with a provider's answer: the step is the one taken when the emission
\* goes through (a response without error is returned, the breaker records
\* the success only, no further provider is called, nothing is raised).
C25_RaisingMetricChangesNothing ==
    [][\A r \in Slots, o \in Outcomes :
          ProviderReturns(r, o) => ProviderReturns(r, Quiet(o))]_vars

\* C26: a request all of whose candidates failed or were skipped returns
\* the error response of provider 'aal_service' whose error carries the last
\* underlying error; it does not raise.
C26_ExhaustedReturnsLastError ==
    \A r \in Slots :
        (requests[r].pc = "done" /\ ~requests[r].seen_ok /\ requests[r].cands # <<>>)
        => LET response == requests[r].returned[1] IN
           /\ response.provider_used = "aal_service"
           /\ response.error # None
           /\ response.error[1][1] = "all_failed"
           /\ response.error[1][2] # None

\* the registered providers a request admits: the preferred one if one is
\* named, advertising every required capability
Qualifying(req) ==
    {Registered[i] : i \in {k \in 1..Len(Registered) :
        /\ req.preferred # None => Registered[k] = req.preferred[1]
        /\ req.caps \subseteq Capabilities(Registered[k])}}

\* C27: every provider called for a request qualifies for it; when no
\* registered provider qualifies, no provider is called and the request
\* returns an error response, and a request that names a preferred provider
\* never calls another one, whatever the preferred one answers.
C27_OnlyQualifyingProvidersCalled ==
    routing.req # <<>>
    => /\ \A i \in 1..Len(routing.called) :
             routing.called[i] \in Qualifying(routing.req)
       /\ (routing.pc # "pending" /\ Qualifying(routing.req) = {})
          => /\ routing.called = <<>>
             /\ routing.pc = "done"
             /\ routing.returned[1].provider_used = "aal_service"
             /\ routing.returned[1].error # None

\* the preferred provider pa was called, failed, and the request ended with
\* the error response although pb and pc were registered
C27_Witness ==
    /\ routing.pc = "done"
    /\ routing.req.preferred = Some("pa")
    /\ routing.called = <<"pa">>
    /\ routing.returned[1].provider_used = "aal_service"

\* C28: with max_cost_usd set, a provider that passed the capability filter
\* is dropped from the candidates exactly when the estimated cost of its
\* cheapest eligible model exceeds max_cost_usd.
C28_DroppedIffTooExpensive ==
    (routing.pc # "pending" /\ routing.req.max_cost # None)
    => LET req == routing.req
           capable == ByCapabilities(req, RoutePreferred(req))
           kept == {routing.cands[i] : i \in 1..Len(routing.cands)} IN
       \A i \in 1..Len(capable) :
          LET estimate == EstimateProviderCost(capable[i], req) IN
          (capable[i] \notin kept)
          <=> (estimate # None /\ estimate[1] > req.max_cost[1])

\* C29: the candidates are ordered by advertised quality tier, high first,
\* and within one tier by ascending estimated cheapest cost; they are called
\* in that order.
C29_OrderedByTierThenCost ==
    routing.pc # "pending"
    => /\ \A i \in 1..Len(routing.called) : routing.called[i] = routing.cands[i]
       /\ \A i, j \in 1..Len(routing.cands) :
             i < j =>
             LET a == routing.cands[i]
                 b == routing.cands[j]
                 cost_a == EstimateProviderCost(a, routing.req)
                 cost_b == EstimateProviderCost(b, routing.req) IN
             \/ SortKey(a) > SortKey(b)
             \/ /\ SortKey(a) = SortKey(b)
                /\ (cost_a # None /\ cost_b # None) => cost_a[1] <= cost_b[1]

\* the breakers of the registry the class attribute names
RegistryBreakers(reg) ==
    IF reg.instance = None THEN <<>> ELSE reg.objects[reg.instance[1]].breakers

\* C30 (state part): at most one registry object exists and every handle
\* names it, so every handle sees the same breakers.
C30_OneRegistry ==
    /\ Len(registry.objects) <= 1
    /\ \A h \in Handles :
          registry.handles[h] # None => registry.handles[h] = registry.instance

\* C30 (step part): a breaker, once created for a name, stays the breaker of
\* that name; a lookup through any handle returns it; its state and counters
\* change only in a record_success or record_failure on its own name.
C30_Step ==
    \A name \in DOMAIN RegistryBreakers(registry) :
        LET before == RegistryBreakers(registry)[name]
            after == RegistryBreakers(registry')
            call == registry'.last IN
        /\ name \in DOMAIN after
        /\ after[name].serial = before.serial
        /\ (call.op = "get_circuit_breaker" /\ call.name = name)
           => (call.ret = Some(before.serial) /\ after[name] = before)
        /\ after[name].b # before.b
           => (call.op \in {"record_success", "record_failure"} /\ call.name = name)

\* C30: the breaker registry is one per process: the first lookup of a name
\* creates its breaker and every later lookup, through any handle, returns
\* that same breaker with its recorded state; recording on one name never
\* changes the breaker of another name.
C30_RegistryOnePerProcess == []C30_OneRegistry /\ [][C30_Step]_vars

\* a breaker created and failed through h1 was just looked up through h2,
\* with its failure recorded, while the breaker of p2 is untouched
C30_Witness ==
    /\ {"p1", "p2"} \subseteq DOMAIN RegistryBreakers(registry)
    /\ registry.last = [op |-> "get_circuit_breaker", handle |-> "h2", name |-> "p1",
                        ret |-> Some(RegistryBreakers(registry)["p1"].serial)]
    /\ RegistryBreakers(registry)["p1"].created_by = "h1"
    /\ RegistryBreakers(registry)["p1"].b.failure_count > 0
    /\ RegistryBreakers(registry)["p2"].b = NewBreaker

\* C31: a record_failure on a breaker that is already open leaves it open and
\* does not move the moment its reset becomes available: the reset is due
\* exactly from timeout_seconds after the breaker entered open.
C31_Step ==
    \A n \in DOMAIN circuit_breakers :
        LET b == circuit_breakers[n] IN
        (b.state = "open" /\ ApiRecordFailure(n)) =>
            LET c == circuit_breakers'[n] IN
            /\ c.state = "open"
            /\ c.opened_at = b.opened_at
            /\ \A t \in now..(MaxBreakerTime + timeout_seconds) :
                  ShouldAttemptReset(c, t) <=> (t - b.opened_at[1] >= timeout_seconds)

C31_FailureWhileOpenDoesNotPostpone == [][C31_Step]_vars

\* C32: a failure of update_access changes nothing in what assemble_context
\* gives: the call ends as it would have ended had update_access succeeded,
\* with every fact that fits included.
C32_AccessFailureDoesNotFailAssembly ==
    (assembled.op = "assemble_context" /\ assembled.result # Pending
     /\ ~assembled.access_ok)
    => assembled.result = AssembleContext(assembled.session, assembled.working,
                                          assembled.longterm, assembled.max_tokens, TRUE)

\* the first time of asking at which the store answers, 0 if it never does
FirstAnswer(plan) ==
    IF \E i \in DOMAIN plan : plan[i] = "ok"
    THEN CHOOSE i \in DOMAIN plan : plan[i] = "ok" /\ \A j \in 1..(i - 1) : plan[j] # "ok"
    ELSE 0

\* C33: a fetch behind a closed breaker is repeated until the store answers,
\* at most three times; if it answers at one of them the layer contributes
\* and the breaker counts no failure, and if all three fail the breaker
\* counts one failure.
C33_RetriedBeforeBreakerCounts ==
    (fetch.calls > 0 /\ fetch.before.state = "closed")
    => LET k == FirstAnswer(fetch.plan) IN
       IF k > 0
       THEN /\ fetch.attempts = k
            /\ fetch.layer = "fetched"
            /\ fetch.outcome = "returned_healthy"
            /\ fetch.fail_counter <= fetch.before.fail_counter
       ELSE /\ fetch.attempts = stop_after_attempt
            /\ fetch.fail_counter = fetch.before.fail_counter + 1

\* C34: an assembly with max_tokens = 0, by ContextAssembler or by the
\* resilient assembler, returns an empty context with status healthy or
\* degraded and has asked no memory layer.
C34_ZeroBudgetFetchesNothing ==
    (assembled.op \in {"assemble_context", "resilient"}
     /\ assembled.result # Pending /\ assembled.max_tokens = 0)
    => /\ assembled.result.outcome = "returned"
       /\ assembled.result.context.status \in {"healthy", "degraded"}
       /\ assembled.result.context
              = EmptyContext(assembled.result.context.status)
       /\ assembled.fetched = {}

\* C35: no step lowers the stored access_count of a long-term entry.
C35_Step ==
    \A id \in DOMAIN long_term_memory :
        id \in DOMAIN long_term_memory'
        => long_term_memory'[id].access_count >= long_term_memory[id].access_count

C35_AccessCountNeverDecreases == [][C35_Step]_vars

\* C36: a create_session, add_message, update_context or delete_session that
\* has written has handed its event to the bus, once, except a
\* delete_session that found no session, which hands over none; the event
\* is lost only if the bus fails.
C36_SessionWritesPublish ==
    (/\ memory_call.pc = "idle"
     /\ memory_call.op \in {"create_session", "add_message", "update_context",
                            "delete_session"}
     /\ memory_call.wrote)
    => IF memory_call.op = "delete_session" /\ memory_call.session = None
       THEN ~memory_call.sent /\ memory_call.publish = "none"
       ELSE memory_call.sent /\ memory_call.publish \in {"ok", "failed"}

\* C37: a step of the retry worker that replays one failure record and fails
\* leaves the set of DLQ records as it was: it only updates the record it
\* replayed.
C37_Step ==
    (\E id \in FailureIds, outcome \in PublishOutcomes \ {"ok"}, db_ok \in BOOLEAN :
        WorkerRetryEvent(id, outcome, db_ok))
    => DOMAIN event_failures' = DOMAIN event_failures

C37_FailedReplayAddsNoRecord == [][C37_Step]_vars

\* C38: no supervision task is ever in the loop that calls a worker.start()
\* which returns at once: every start() the supervisor calls after an earlier
\* one ended enters the worker loop and reaches run() or a sleep.
C38_RestartReentersWorkerLoop ==
    \A w \in WorkerNames :
        supervised[w].pc \notin {"run", "interval_sleep", "backoff_sleep"}
        => supervised[w].pc \in {"not_created", "created", "done"}

\* C39: while a delete_session of a key has completed and no create_session
\* has stored the key again, the key is not in Redis: get_session returns
\* nothing, also after an add_message that began before the delete has
\* finished.
C39_DeletedStaysDeleted ==
    \A sid \in SessionIds : deleted[sid] => RedisGet(sid) = None

\* C40: a step that stores or replaces the fallback cache entry of a key
\* stores a context whose status is healthy; every other step leaves the
\* entry as it is.
C40_Step ==
    \A key \in CacheKeys :
        (/\ HasKey(context_cache', key)
         /\ HasKey(context_cache, key) => context_cache'[key] # context_cache[key])
        => context_cache'[key].status = "healthy"

C40_CacheHoldsLastHealthy == [][C40_Step]_vars

====
